---- MODULE Spec2Model ----
(***************************************************************************)
(* The content-addressable store of maple: the blob area (storage/blob.go), *)
(* the manifest area (storage/manifest.go) and the `rm policy` command      *)
(* (cmd/rm.go), as processes that act on one shared on-disk store.          *)
(*                                                                         *)
(* Every system call of a handler is one step of the calling process, so   *)
(* that handlers of different processes interleave between system calls.   *)
(***************************************************************************)
EXTENDS Integers, Sequences, FiniteSets, TLC

VARIABLES
    blobsDir,   \* ~/.maple/blobs: file name -> bytes of the file
    manifests,  \* ~/.maple/manifests: path of an entry -> its bytes
    pc,         \* per process: the system call it is about to make
    loc,        \* per process: the local variables of the running handler
    ret         \* per process: what its last finished handler returned

vars == <<blobsDir, manifests, pc, loc, ret>>

(***************************************************************************)
(* Bounds.                                                                 *)
(***************************************************************************)
MaxLen == 1        \* longest payload given to WriteBlob
NumTmp == 2
MaxEnvs == 2        \* how many names os.CreateTemp can draw
MaxRefLen == 5     \* most tokens of a string given to ParseModelRef

Byte == {1, 2}
Procs == {1, 2}    \* the processes that act on the store
Payloads == UNION {[1..n -> Byte] : n \in 0..MaxLen}

(***************************************************************************)
(* SHA-256, incrementally: the hasher's state after each Write.  The map   *)
(* from byte sequences to sums is injective (no collisions).               *)
(***************************************************************************)
HashNew == 0
HashWrite(h, byte) == h * Cardinality(Byte) + byte

RECURSIVE Sha256(_)
Sha256(b) ==
    IF b = <<>> THEN HashNew
    ELSE HashWrite(Sha256(SubSeq(b, 1, Len(b) - 1)), b[Len(b)])

(***************************************************************************)
(* Digest strings and file names of the blob area.  A string               *)
(* "sha256<sep><hex>" is <<"sha256", sep, hex>>; "tmp-<n>" is              *)
(* <<"tmp", "-", n>>.                                                      *)
(***************************************************************************)
Digest(sep, hex) == <<"sha256", sep, hex>>

\* fmt.Sprintf("sha256-%s", hex.EncodeToString(hasher.Sum(nil)))
SprintfDigest(h) == Digest("-", h)

TmpNames == {<<"tmp", "-", n>> : n \in 1..NumTmp}

\* blobsDir has this entry, and no other, while the directory ~/.maple/blobs
\* itself does not exist
NoBlobsDir == <<"", "ENOENT", 0>>

\* strings.Replace(digest, ":", "-", 1), joined to the blobs directory
BlobPath(digest) ==
    <<digest[1], IF digest[2] = ":" THEN "-" ELSE digest[2], digest[3]>>

\* strings.HasPrefix(e.Name(), "sha256-")
HasDigestPrefix(name) == name[1] = "sha256" /\ name[2] = "-"

\* ListBlobs without the filter on the names
ReadDirNames == DOMAIN blobsDir

\* the names ListBlobs() keeps of the entries of the blobs directory
ListBlobs == {n \in DOMAIN blobsDir : HasDigestPrefix(n)}

BlobExists(digest) == BlobPath(digest) \in DOMAIN blobsDir

\* info.Size() of the file; only asked of an existing blob here
BlobSize(digest) == Len(blobsDir[BlobPath(digest)])

\* the bytes a reader gets from os.Open(path) read to the end
OpenBlob(digest) == blobsDir[BlobPath(digest)]

(***************************************************************************)
(* Directory primitives.  A process that holds an open file keeps writing  *)
(* to the same inode when the file is renamed, and to an unlinked inode    *)
(* when its name is removed or replaced: loc[p].fd is the name under which *)
(* the inode of p's open file is now linked.                               *)
(***************************************************************************)
Unlinked == <<"", "", 0>>
NoLoc == [op |-> "none"]

\* ret[p] while p has returned nothing yet, and while a handler of p runs
NoRet == [op |-> "none", err |-> ""]

Remove(dir, name) == [n \in DOMAIN dir \ {name} |-> dir[n]]

Put(dir, name, data) ==
    [n \in DOMAIN dir \cup {name} |-> IF n = name THEN data ELSE dir[n]]

RenameFile(dir, from, to) == Put(Remove(dir, from), to, dir[from])

HasFd(l) == l.op = "WriteBlob" /\ l.fd # Unlinked

\* every open file after `from` was renamed to `to`
FdsAfterRename(ls, from, to) ==
    [q \in DOMAIN ls |->
        IF HasFd(ls[q]) /\ ls[q].fd = to THEN [ls[q] EXCEPT !.fd = Unlinked]
        ELSE IF HasFd(ls[q]) /\ ls[q].fd = from THEN [ls[q] EXCEPT !.fd = to]
        ELSE ls[q]]

\* every open file after `name` was removed
FdsAfterRemove(ls, name) ==
    [q \in DOMAIN ls |->
        IF HasFd(ls[q]) /\ ls[q].fd = name THEN [ls[q] EXCEPT !.fd = Unlinked]
        ELSE ls[q]]

(***************************************************************************)
(* WriteBlob(r): os.CreateTemp, io.Copy to the file and the hasher,        *)
(* tmp.Close, os.Rename, and the deferred os.Remove(tmpPath).  loc[p].b is *)
(* all that the reader r yields, loc[p].r what it has yet to yield.        *)
(***************************************************************************)
OkWrite(digest, size) ==
    [op |-> "WriteBlob", err |-> "", digest |-> digest, size |-> size]
ErrWrite(err) ==
    [op |-> "WriteBlob", err |-> err, digest |-> <<"", "", 0>>, size |-> 0]

\* tmp, err := os.CreateTemp(dir, "tmp-"): a name no file of dir has
\* (O_EXCL); tmpPath := tmp.Name(); defer os.Remove(tmpPath)
WriteBlobCreateTemp(p, b) ==
    /\ pc[p] = "idle"
    /\ NoBlobsDir \notin DOMAIN blobsDir
    /\ \E t \in TmpNames \ DOMAIN blobsDir :
        /\ blobsDir' = Put(blobsDir, t, <<>>)
        /\ loc' = [loc EXCEPT ![p] =
                      [op |-> "WriteBlob", b |-> b, r |-> b, tmpPath |-> t,
                       fd |-> t,
                       hasher |-> HashNew, size |-> 0,
                       out |-> ErrWrite("pending")]]
    /\ pc' = [pc EXCEPT ![p] = "wb_copy"]
    /\ ret' = [ret EXCEPT ![p] = NoRet]
    /\ UNCHANGED manifests

\* os.CreateTemp fails: return "", 0, err (nothing was created)
WriteBlobCreateTempFail(p, b) ==
    /\ pc[p] = "idle"
    /\ ret' = [ret EXCEPT ![p] = ErrWrite("CreateTemp")]
    /\ UNCHANGED <<blobsDir, manifests, pc, loc>>

\* WriteBlobCopy with the copy going to the hasher alone
WriteBlobCopyHasherOnly(p) ==
    /\ pc[p] = "wb_copy"
    /\ loc[p].r # <<>>
    /\ loc' = [loc EXCEPT ![p].r = Tail(@),
                          ![p].hasher = HashWrite(@, Head(loc[p].r)),
                          ![p].size = @ + 1]
    /\ UNCHANGED <<blobsDir, manifests, pc, ret>>

\* one round of io.Copy: a chunk read from r goes to the file, then to the
\* hasher (io.MultiWriter(tmp, hasher))
WriteBlobCopy(p) ==
    /\ pc[p] = "wb_copy"
    /\ loc[p].r # <<>>
    /\ LET byte == Head(loc[p].r)
           fd == loc[p].fd
       IN /\ blobsDir' = IF fd = Unlinked THEN blobsDir
                         ELSE Put(blobsDir, fd, Append(blobsDir[fd], byte))
          /\ loc' = [loc EXCEPT ![p].r = Tail(@),
                                ![p].hasher = HashWrite(@, byte),
                                ![p].size = @ + 1]
    /\ UNCHANGED <<manifests, pc, ret>>

\* io.Copy returns an error of the reader: tmp.Close(); return "", 0, err
WriteBlobCopyFail(p) ==
    /\ pc[p] = "wb_copy"
    /\ loc[p].r # <<>>
    /\ loc' = [loc EXCEPT ![p].fd = Unlinked, ![p].out = ErrWrite("Copy")]
    /\ pc' = [pc EXCEPT ![p] = "wb_deferred"]
    /\ UNCHANGED <<blobsDir, manifests, ret>>

\* io.Copy reaches EOF: tmp.Close(); digest := "sha256-" + hex of the sum
WriteBlobClose(p) ==
    /\ pc[p] = "wb_copy"
    /\ loc[p].r = <<>>
    /\ loc' = [loc EXCEPT ![p].fd = Unlinked]
    /\ pc' = [pc EXCEPT ![p] = "wb_rename"]
    /\ UNCHANGED <<blobsDir, manifests, ret>>

\* WriteBlobRename with a rename that refuses to replace an existing file
WriteBlobRenameNoReplace(p) ==
    /\ pc[p] = "wb_rename"
    /\ LET tmpPath == loc[p].tmpPath
           digest == SprintfDigest(loc[p].hasher)
       IN IF tmpPath \in DOMAIN blobsDir /\ digest \notin DOMAIN blobsDir
          THEN /\ blobsDir' = RenameFile(blobsDir, tmpPath, digest)
               /\ loc' = [FdsAfterRename(loc, tmpPath, digest)
                             EXCEPT ![p].out = OkWrite(digest, loc[p].size)]
          ELSE /\ blobsDir' = blobsDir
               /\ loc' = [loc EXCEPT ![p].out = ErrWrite("EEXIST")]
    /\ pc' = [pc EXCEPT ![p] = "wb_deferred"]
    /\ UNCHANGED <<manifests, ret>>

\* os.Rename(tmpPath, finalPath): moves whatever file is now named tmpPath;
\* ENOENT when no file has that name
WriteBlobRename(p) ==
    /\ pc[p] = "wb_rename"
    /\ LET tmpPath == loc[p].tmpPath
           digest == SprintfDigest(loc[p].hasher)
       IN IF tmpPath \in DOMAIN blobsDir
          THEN /\ blobsDir' = RenameFile(blobsDir, tmpPath, digest)
               /\ loc' = [FdsAfterRename(loc, tmpPath, digest)
                             EXCEPT ![p].out = OkWrite(digest, loc[p].size)]
          ELSE /\ blobsDir' = blobsDir
               /\ loc' = [loc EXCEPT ![p].out = ErrWrite("ENOENT")]
    /\ pc' = [pc EXCEPT ![p] = "wb_deferred"]
    /\ UNCHANGED <<manifests, ret>>

\* os.Rename fails for another reason (EIO, ...): return "", 0, err
WriteBlobRenameFail(p) ==
    /\ pc[p] = "wb_rename"
    /\ loc' = [loc EXCEPT ![p].out = ErrWrite("EIO")]
    /\ pc' = [pc EXCEPT ![p] = "wb_deferred"]
    /\ UNCHANGED <<blobsDir, manifests, ret>>

\* WriteBlobDeferred without the deferred os.Remove(tmpPath)
WriteBlobReturnOnly(p) ==
    /\ pc[p] = "wb_deferred"
    /\ loc' = [loc EXCEPT ![p] = NoLoc]
    /\ ret' = [ret EXCEPT ![p] = loc[p].out]
    /\ pc' = [pc EXCEPT ![p] = "idle"]
    /\ UNCHANGED <<blobsDir, manifests>>

\* the deferred os.Remove(tmpPath) (its error is dropped), then the return
WriteBlobDeferred(p) ==
    /\ pc[p] = "wb_deferred"
    /\ LET tmpPath == loc[p].tmpPath
       IN /\ blobsDir' = Remove(blobsDir, tmpPath)
          /\ loc' = [FdsAfterRemove(loc, tmpPath) EXCEPT ![p] = NoLoc]
    /\ ret' = [ret EXCEPT ![p] = loc[p].out]
    /\ pc' = [pc EXCEPT ![p] = "idle"]
    /\ UNCHANGED manifests

\* the process is killed inside WriteBlob: no deferred call runs
WriteBlobKilled(p) ==
    /\ pc[p] \in {"wb_copy", "wb_rename", "wb_deferred"}
    /\ loc' = [loc EXCEPT ![p] = NoLoc]
    /\ ret' = [ret EXCEPT ![p] = ErrWrite("killed")]
    /\ pc' = [pc EXCEPT ![p] = "idle"]
    /\ UNCHANGED <<blobsDir, manifests>>

WriteBlob(p, inputs) ==
    \/ \E b \in inputs : WriteBlobCreateTemp(p, b)
    \/ \E b \in inputs : WriteBlobCreateTempFail(p, b)
    \/ WriteBlobCopy(p)
    \/ WriteBlobCopyFail(p)
    \/ WriteBlobClose(p)
    \/ WriteBlobRename(p)
    \/ WriteBlobRenameFail(p)
    \/ WriteBlobDeferred(p)

(***************************************************************************)
(* Manifests.  A Manifest value is [config |-> digest, layers |-> digests, *)
(* sizes |-> the Size of the config layer and of the others].  Its JSON    *)
(* document is a sequence of tokens: "{", digest and size of the config    *)
(* layer, digest and size of every other layer in order, "}".  A file      *)
(* holds a prefix of a document while it is being written.                 *)
(***************************************************************************)
LBrace == <<"{", "", 0>>
RBrace == <<"}", "", 0>>

\* a Manifest with the Size of its config layer, sizes[1], and of its other
\* layers
ManifestSized(config, layers, sizes) ==
    [config |-> config, layers |-> layers, sizes |-> sizes]

\* a Manifest whose layers have the zero Size
Manifest(config, layers) ==
    ManifestSized(config, layers, [i \in 1..(Len(layers) + 1) |-> 0])

\* the "size" member of a layer
SizeTok(n) == <<"size", "", n>>

\* json.MarshalIndent(m, "", "  "): digest and size of the config layer,
\* then of every other layer
MarshalIndent(m) ==
    LET all == <<m.config>> \o m.layers
    IN <<LBrace>>
          \o [i \in 1..(2 * Len(all)) |->
                 IF i % 2 = 1 THEN all[(i + 1) \div 2]
                 ELSE SizeTok(m.sizes[i \div 2])]
          \o <<RBrace>>

\* data is a whole document: the braces, and between them digests and
\* sizes in turn
IsDocument(data) ==
    /\ Len(data) >= 4
    /\ Len(data) % 2 = 0
    /\ data[1] = LBrace
    /\ data[Len(data)] = RBrace
    /\ \A i \in 2..(Len(data) - 1) :
           IF i % 2 = 1 THEN data[i][1] = "size"
           ELSE data[i][1] \notin {"size", "{", "}"}

\* the Manifest a whole document holds
Decoded(data) ==
    ManifestSized(data[2],
                  [k \in 1..((Len(data) - 4) \div 2) |-> data[2 * k + 2]],
                  [k \in 1..((Len(data) - 2) \div 2) |-> data[2 * k + 1][3]])

\* Unmarshal with the error of a missing file for a document that is not whole
UnmarshalNotExist(data) ==
    IF IsDocument(data) THEN [err |-> "", m |-> Decoded(data)]
    ELSE [err |-> "not exist", m |-> Manifest(<<"", "", 0>>, <<>>)]

\* json.Unmarshal(data, &m): an error unless data is a whole document
Unmarshal(data) ==
    IF IsDocument(data) THEN [err |-> "", m |-> Decoded(data)]
    ELSE [err |-> "syntax", m |-> Manifest(<<"", "", 0>>, <<>>)]

(***************************************************************************)
(* Strings.  A reference, a name or a tag is the sequence of its tokens:   *)
(* words ("m", "v2", "latest") and the separators ":" and "/".  "m:v2" is  *)
(* <<"m", ":", "v2">>, "a/b" is <<"a", "/", "b">>, "" is <<>>.  The word    *)
(* ".." is the parent directory; no word of the model is ".".              *)
(***************************************************************************)
Colon == ":"
Slash == "/"

\* strings.LastIndex(s, sep): where sep last occurs in s, 0 when it does not
LastIndex(s, sep) ==
    IF \E i \in 1..Len(s) : s[i] = sep
    THEN CHOOSE i \in 1..Len(s) :
             s[i] = sep /\ \A k \in (i + 1)..Len(s) : s[k] # sep
    ELSE 0

\* strings.Index(s, sep): where sep first occurs in s, 0 when it does not
Index(s, sep) ==
    IF \E i \in 1..Len(s) : s[i] = sep
    THEN CHOOSE i \in 1..Len(s) :
             s[i] = sep /\ \A k \in 1..(i - 1) : s[k] # sep
    ELSE 0

\* strings.SplitN(s, sep, 2): s cut at the first sep, or s alone
SplitN2(s, sep) ==
    LET i == Index(s, sep)
    IN IF i = 0 THEN <<s>>
       ELSE <<SubSeq(s, 1, i - 1), SubSeq(s, i + 1, Len(s))>>

\* name = parts[0]; tag = parts[1] if len(parts) > 1, else "latest"
ParseModelRef(ref) ==
    LET parts == SplitN2(ref, Colon)
    IN [name |-> parts[1],
        tag |-> IF Len(parts) > 1 THEN parts[2] ELSE <<"latest">>]

\* the path elements of s: what stands between slashes, empty elements
\* dropped as filepath.Clean drops them
RECURSIVE Elements(_)
Elements(s) ==
    LET i == Index(s, Slash)
    IN IF i = 0 THEN (IF s = <<>> THEN <<>> ELSE <<s>>)
       ELSE (IF i = 1 THEN <<>> ELSE <<SubSeq(s, 1, i - 1)>>)
                \o Elements(SubSeq(s, i + 1, Len(s)))

DotDot == ".."

\* filepath.Clean of a relative path: a ".." takes away the element before
\* it, and stays when there is none
RECURSIVE Clean(_)
Clean(path) ==
    IF path = <<>> THEN <<>>
    ELSE LET init == Clean(SubSeq(path, 1, Len(path) - 1))
             last == path[Len(path)]
         IN IF /\ last = <<DotDot>>
               /\ init # <<>>
               /\ init[Len(init)] # <<DotDot>>
            THEN SubSeq(init, 1, Len(init) - 1)
            ELSE Append(init, last)

\* filepath.Join(dir, name, tag): the cleaned path, relative to the
\* manifests directory
ManifestPath(name, tag) == Clean(Elements(name) \o Elements(tag))

\* path is ../blobs/sha256-<hex>, a file name of the blobs directory
InBlobs(path) ==
    /\ Len(path) = 3
    /\ path[1] = <<DotDot>>
    /\ path[2] = <<"blobs">>
    /\ Len(path[3]) = 3
    /\ path[3][1] = "sha256"
    /\ path[3][2] = "-"
    /\ path[3][3] \in {"0", "1", "2"}

\* the file of the blobs directory that such a path names
BlobFile(path) ==
    Digest("-", CASE path[3][3] = "0" -> 0
                  [] path[3][3] = "1" -> 1
                  [] path[3][3] = "2" -> 2)

\* the blobs directory after os.Remove(path) succeeded
BlobsAfterRemove(path) ==
    IF InBlobs(path) THEN Remove(blobsDir, BlobFile(path)) ELSE blobsDir

(***************************************************************************)
(* The manifest area is a tree: manifests maps the path of every entry     *)
(* below ~/.maple/manifests (<<>> is the directory itself) to the bytes of *)
(* a file or to DirMark for a directory.                                   *)
(***************************************************************************)
DirMark == << <<"dir", "", 0>> >>

IsDir(path) == path \in DOMAIN manifests /\ manifests[path] = DirMark

IsFile(path) == path \in DOMAIN manifests /\ manifests[path] # DirMark

\* the stored manifest files
ManifestFiles == {path \in DOMAIN manifests : manifests[path] # DirMark}

\* filepath.Dir(path)
Parent(path) == SubSeq(path, 1, Len(path) - 1)

Children(path) ==
    {n \in DOMAIN manifests :
        Len(n) = Len(path) + 1 /\ SubSeq(n, 1, Len(path)) = path}

\* the error of looking path up: ENOTDIR when an element on the way is a
\* file, ENOENT when nothing is there
Lookup(path) ==
    IF InBlobs(path)
    THEN (IF BlobFile(path) \in DOMAIN blobsDir THEN "" ELSE "not exist")
    ELSE IF \E k \in 0..(Len(path) - 1) : IsFile(SubSeq(path, 1, k))
    THEN "not a directory"
    ELSE IF path \notin DOMAIN manifests THEN "not exist" ELSE ""

\* os.ReadFile(path)
ReadFile(path) ==
    IF Lookup(path) # "" THEN [err |-> Lookup(path), data |-> <<>>]
    ELSE IF IsDir(path) THEN [err |-> "is a directory", data |-> <<>>]
    ELSE [err |-> "", data |-> manifests[path]]

\* the error of os.OpenFile(path, O_WRONLY|O_CREATE|O_TRUNC); the parent of
\* the manifests directory always exists
OpenErr(path) ==
    IF Lookup(path) = "not a directory" THEN "not a directory"
    ELSE IF path # <<>> /\ Parent(path) \notin DOMAIN manifests
    THEN "not exist"
    ELSE IF IsDir(path) THEN "is a directory" ELSE ""

\* the error of os.Remove(path), which removes a file or an empty directory
RemoveErr(path) ==
    IF Lookup(path) # "" THEN Lookup(path)
    ELSE IF IsDir(path) /\ Children(path) # {} THEN "directory not empty"
    ELSE ""

\* the error of os.MkdirAll(dir): an element on the way is a file
MkdirAllErr(dir) ==
    IF \E k \in 0..Len(dir) : IsFile(SubSeq(dir, 1, k))
    THEN "not a directory" ELSE ""

\* the area after os.MkdirAll(dir) made every missing directory
MkdirAll(dir) ==
    LET made == {SubSeq(dir, 1, k) : k \in 0..Len(dir)}
    IN [n \in DOMAIN manifests \cup made |->
           IF n \in DOMAIN manifests THEN manifests[n] ELSE DirMark]

\* the names os.ReadDir can meet, in the order it sorts them
SortedNames == << <<"latest">>, <<"m">>, <<"v2">> >>

\* os.ReadDir(dir): the names of the entries of dir, sorted
ReadDir(dir) ==
    SelectSeq(SortedNames, LAMBDA x : (dir \o <<x>>) \in DOMAIN manifests)

\* TagRefs with the directories at the tag level listed as well
RECURSIVE TagRefsAll(_, _)
TagRefsAll(name, tags) ==
    IF tags = <<>> THEN <<>>
    ELSE <<name \o <<Colon>> \o Head(tags)>> \o TagRefsAll(name, Tail(tags))

\* for _, t := range tags: name+":"+t.Name() of every t that is no directory
RECURSIVE TagRefs(_, _)
TagRefs(name, tags) ==
    IF tags = <<>> THEN <<>>
    ELSE (IF IsDir(<<name, Head(tags)>>) THEN <<>>
          ELSE <<name \o <<Colon>> \o Head(tags)>>)
             \o TagRefs(name, Tail(tags))

\* for _, e := range entries: the tags of every e that is a directory;
\* `continue` for a directory of which os.ReadDir fails, as it does for
\* those in unreadable
RECURSIVE NameRefsWith(_, _)
NameRefsWith(entries, unreadable) ==
    IF entries = <<>> THEN <<>>
    ELSE (IF IsDir(<<Head(entries)>>) /\ Head(entries) \notin unreadable
          THEN TagRefs(Head(entries), ReadDir(<<Head(entries)>>))
          ELSE <<>>)
             \o NameRefsWith(Tail(entries), unreadable)

\* the loop over the entries when every directory can be read
NameRefs(entries) == NameRefsWith(entries, {})

\* ListManifests(): no reference when the directory is missing, the error
\* of os.ReadDir when it is no directory
ListManifestsWith(unreadable) ==
    IF <<>> \notin DOMAIN manifests THEN [err |-> "", refs |-> <<>>]
    ELSE IF IsFile(<<>>) THEN [err |-> "not a directory", refs |-> <<>>]
    ELSE [err |-> "", refs |-> NameRefsWith(ReadDir(<<>>), unreadable)]

\* ListManifests() when every directory can be read
ListManifests == ListManifestsWith({})

\* ManifestExists that finds every reference
ManifestExistsAlways(name, tag) == [exists |-> TRUE, err |-> ""]

\* ManifestExists(name, tag): os.Stat(path); false and no error when
\* os.IsNotExist(err), else err == nil and err
ManifestExists(name, tag) ==
    LET e == Lookup(ManifestPath(name, tag))
    IN [exists |-> e = "", err |-> IF e = "not exist" THEN "" ELSE e]

\* LoadManifest(name, tag): os.ReadFile, then json.Unmarshal; the payload
\* bytes of a blob are no JSON document
LoadManifest(name, tag) ==
    LET path == ManifestPath(name, tag)
    IN IF Lookup(path) # "" \/ IsDir(path)
       THEN [err |-> ReadFile(path).err, m |-> Manifest(<<"", "", 0>>, <<>>)]
       ELSE IF InBlobs(path)
       THEN [err |-> "syntax", m |-> Manifest(<<"", "", 0>>, <<>>)]
       ELSE Unmarshal(ReadFile(path).data)

\* an open manifest file whose name is still linked
HasMfd(l) == l.op = "SaveManifest" /\ l.linked

\* every open manifest file after `path` was removed
MfdsAfterRemove(ls, path) ==
    [q \in DOMAIN ls |->
        IF HasMfd(ls[q]) /\ ls[q].fd = path THEN [ls[q] EXCEPT !.linked = FALSE]
        ELSE ls[q]]

\* a write of data at offset 0 over the bytes old
WriteAt0(old, data) ==
    IF Len(old) > Len(data)
    THEN data \o SubSeq(old, Len(data) + 1, Len(old))
    ELSE data

(***************************************************************************)
(* SaveManifest(name, tag, m): os.MkdirAll of the parent directory,        *)
(* json.MarshalIndent and os.WriteFile, which opens the file with          *)
(* O_CREATE|O_TRUNC, writes the document and closes it.                    *)
(***************************************************************************)
\* os.MkdirAll(filepath.Dir(path), 0755); the parent of the manifests
\* directory itself is ~/.maple, which exists
SaveManifestMkdirAll(p, ref, m) ==
    /\ pc[p] = "idle"
    /\ LET r == ParseModelRef(ref)
           path == ManifestPath(r.name, r.tag)
           err == IF path = <<>> THEN "" ELSE MkdirAllErr(Parent(path))
       IN IF err = ""
          THEN /\ manifests' = IF path = <<>> THEN manifests
                               ELSE MkdirAll(Parent(path))
               /\ loc' = [loc EXCEPT ![p] =
                             [op |-> "SaveManifest", ref |-> ref, fd |-> path,
                              linked |-> FALSE, m |-> m,
                              data |-> MarshalIndent(m)]]
               /\ pc' = [pc EXCEPT ![p] = "sm_open"]
               /\ ret' = [ret EXCEPT ![p] = NoRet]
          ELSE /\ ret' = [ret EXCEPT ![p] =
                             [op |-> "SaveManifest", err |-> err, ref |-> ref]]
               /\ UNCHANGED <<manifests, pc, loc>>
    /\ UNCHANGED blobsDir

\* os.WriteFile, first half: OpenFile(path, O_WRONLY|O_CREATE|O_TRUNC)
SaveManifestOpen(p) ==
    /\ pc[p] = "sm_open"
    /\ LET path == loc[p].fd
       IN IF OpenErr(path) = ""
          THEN /\ manifests' = Put(manifests, path, <<>>)
               /\ loc' = [loc EXCEPT ![p].linked = TRUE]
               /\ pc' = [pc EXCEPT ![p] = "sm_write"]
               /\ ret' = ret
          ELSE /\ ret' = [ret EXCEPT ![p] =
                             [op |-> "SaveManifest", err |-> OpenErr(path),
                              ref |-> loc[p].ref]]
               /\ loc' = [loc EXCEPT ![p] = NoLoc]
               /\ pc' = [pc EXCEPT ![p] = "idle"]
               /\ manifests' = manifests
    /\ UNCHANGED blobsDir

\* os.WriteFile, second half: f.Write(data), f.Close(); return nil
SaveManifestWrite(p) ==
    /\ pc[p] = "sm_write"
    /\ LET fd == loc[p].fd
       IN manifests' = IF ~loc[p].linked THEN manifests
                       ELSE Put(manifests, fd, WriteAt0(manifests[fd], loc[p].data))
    /\ ret' = [ret EXCEPT ![p] =
                  [op |-> "SaveManifest", err |-> "", ref |-> loc[p].ref]]
    /\ loc' = [loc EXCEPT ![p] = NoLoc]
    /\ pc' = [pc EXCEPT ![p] = "idle"]
    /\ UNCHANGED blobsDir

\* the process is killed between the open and the write
SaveManifestKilled(p) ==
    /\ pc[p] = "sm_write"
    /\ ret' = [ret EXCEPT ![p] =
                  [op |-> "SaveManifest", err |-> "killed", ref |-> loc[p].ref]]
    /\ loc' = [loc EXCEPT ![p] = NoLoc]
    /\ pc' = [pc EXCEPT ![p] = "idle"]
    /\ UNCHANGED <<blobsDir, manifests>>

SaveManifest(p, refs, ms) ==
    \/ \E ref \in refs, m \in ms : SaveManifestMkdirAll(p, ref, m)
    \/ SaveManifestOpen(p)
    \/ SaveManifestWrite(p)

\* a caller of LoadManifest(name, tag), as show and list are
LoadManifestCall(p, ref) ==
    /\ pc[p] = "idle"
    /\ LET r == ParseModelRef(ref)
           got == LoadManifest(r.name, r.tag)
       IN ret' = [ret EXCEPT ![p] =
                     [op |-> "LoadManifest", err |-> got.err, ref |-> ref,
                      m |-> got.m]]
    /\ UNCHANGED <<blobsDir, manifests, pc, loc>>

\* a caller of ParseModelRef(ref), with loc[p].ref the string it passes
ParseModelRefCall(p) ==
    /\ pc[p] = "idle"
    /\ loc[p].op = "ParseModelRef"
    /\ ret' = [ret EXCEPT ![p] =
                  [op |-> "ParseModelRef", err |-> "", ref |-> loc[p].ref,
                   name |-> ParseModelRef(loc[p].ref).name,
                   tag |-> ParseModelRef(loc[p].ref).tag]]
    /\ loc' = [loc EXCEPT ![p] = NoLoc]
    /\ UNCHANGED <<blobsDir, manifests, pc>>

\* a caller of ListManifests(), with os.ReadDir failing for the name
\* directories in unreadable
ListManifestsCall(p, unreadable) ==
    /\ pc[p] = "idle"
    /\ ret' = [ret EXCEPT ![p] =
                  [op |-> "ListManifests",
                   err |-> ListManifestsWith(unreadable).err,
                   refs |-> ListManifestsWith(unreadable).refs,
                   unreadable |-> unreadable]]
    /\ UNCHANGED <<blobsDir, manifests, pc, loc>>

\* a caller of DeleteManifest(name, tag): os.Remove(path)
DeleteManifestCall(p, ref) ==
    /\ pc[p] = "idle"
    /\ LET r == ParseModelRef(ref)
           path == ManifestPath(r.name, r.tag)
       IN /\ manifests' = IF RemoveErr(path) = "" THEN Remove(manifests, path)
                          ELSE manifests
          /\ loc' = IF RemoveErr(path) = "" THEN MfdsAfterRemove(loc, path)
                    ELSE loc
          /\ blobsDir' = IF RemoveErr(path) = "" THEN BlobsAfterRemove(path)
                         ELSE blobsDir
          /\ ret' = [ret EXCEPT ![p] =
                        [op |-> "DeleteManifest", err |-> RemoveErr(path),
                         ref |-> ref]]
    /\ UNCHANGED pc

(***************************************************************************)
(* `show MODEL` (showCmd.Run) and POST /api/show (handleShow): both call   *)
(* LoadManifest and answer "not found" on any error of it.  The lines      *)
(* about the config, added when LoadConfig succeeds, are left out.         *)
(***************************************************************************)
\* showCmd.Run: "Error: model %s not found" and exit 1, or the report
ShowCmd(p, ref) ==
    /\ pc[p] = "idle"
    /\ LET r == ParseModelRef(ref)
           got == LoadManifest(r.name, r.tag)
       IN ret' = [ret EXCEPT ![p] =
                     IF got.err # ""
                     THEN [op |-> "show", err |-> "model not found",
                           ref |-> ref, exit |-> 1, layers |-> 0]
                     ELSE [op |-> "show", err |-> "", ref |-> ref,
                           exit |-> 0, layers |-> Len(got.m.layers)]]
    /\ UNCHANGED <<blobsDir, manifests, pc, loc>>

\* handleShow: 404 {"error": "model not found"}, or 200 and the response
HandleShow(p, ref) ==
    /\ pc[p] = "idle"
    /\ LET r == ParseModelRef(ref)
           got == LoadManifest(r.name, r.tag)
       IN ret' = [ret EXCEPT ![p] =
                     IF got.err # ""
                     THEN [op |-> "api/show", err |-> "model not found",
                           ref |-> ref, status |-> 404, layers |-> 0]
                     ELSE [op |-> "api/show", err |-> "", ref |-> ref,
                           status |-> 200, layers |-> Len(got.m.layers)]]
    /\ UNCHANGED <<blobsDir, manifests, pc, loc>>

(***************************************************************************)
(* `rm policy MODEL` (rmPolicyCmd.Run): ManifestExists, LoadManifest,      *)
(* DeleteManifest, ListManifests, one LoadManifest per listed reference,   *)
(* one DeleteBlob per unreferenced digest of the removed manifest, and the *)
(* report of the count.  loc[p].stderr is what the command has written to  *)
(* os.Stderr while it goes on: the line of an exit is its ret[p].err.      *)
(* loc[p].had, which the code does not hold, records the names of the      *)
(* blob area when the command started.                                     *)
(***************************************************************************)
\* how the command on ref ends: its error (or none) and the count it reports
RmExit(ref, err, deleted) ==
    [op |-> "rm", ref |-> ref, err |-> err, deleted |-> deleted]

\* digests := []string{m.Config.Digest}; then every l.Digest appended
CollectDigests(m) == <<m.config>> \o m.layers

Range(s) == {s[i] : i \in 1..Len(s)}

\* where the command stands with the sweep at allRefs[i]
AfterSweep(i, allRefs) == IF i > Len(allRefs) THEN "rm_blobs" ELSE "rm_sweep"

\* where the command stands with the deletion loop at digests[j]
AfterBlobs(j, digests) == IF j > Len(digests) THEN "rm_print" ELSE "rm_blobs"

\* storage.ManifestExists(name, tag); its error or "model not found", and
\* exit 1, if not
RmExists(p, ref) ==
    /\ pc[p] = "idle"
    /\ LET r == ParseModelRef(ref)
           st == ManifestExists(r.name, r.tag)
       IN IF st.exists
          THEN /\ loc' = [loc EXCEPT ![p] =
                             [op |-> "rm", ref |-> ref, name |-> r.name,
                              tag |-> r.tag, digests |-> <<>>,
                              allRefs |-> <<>>, referenced |-> {},
                              i |-> 1, j |-> 1, deleted |-> 0,
                              stderr |-> <<>>, had |-> DOMAIN blobsDir]]
               /\ pc' = [pc EXCEPT ![p] = "rm_load"]
               /\ ret' = [ret EXCEPT ![p] = NoRet]
          ELSE /\ ret' = [ret EXCEPT ![p] =
                             RmExit(ref, IF st.err # "" THEN st.err
                                         ELSE "not found", 0)]
               /\ UNCHANGED <<pc, loc>>
    /\ UNCHANGED <<blobsDir, manifests>>

\* RmLoad with the error dropped and the command going on with no digest
RmLoadIgnored(p) ==
    /\ pc[p] = "rm_load"
    /\ LET got == LoadManifest(loc[p].name, loc[p].tag)
       IN loc' = [loc EXCEPT ![p].digests =
                     IF got.err = "" THEN CollectDigests(got.m) ELSE <<>>]
    /\ pc' = [pc EXCEPT ![p] = "rm_delete"]
    /\ UNCHANGED <<blobsDir, manifests, ret>>

\* m, err := storage.LoadManifest(name, tag); exit 1 on an error
RmLoad(p) ==
    /\ pc[p] = "rm_load"
    /\ LET got == LoadManifest(loc[p].name, loc[p].tag)
       IN IF got.err = ""
          THEN /\ loc' = [loc EXCEPT ![p].digests = CollectDigests(got.m)]
               /\ pc' = [pc EXCEPT ![p] = "rm_delete"]
               /\ ret' = ret
          ELSE /\ loc' = [loc EXCEPT ![p] = NoLoc]
               /\ pc' = [pc EXCEPT ![p] = "idle"]
               /\ ret' = [ret EXCEPT ![p] = RmExit(loc[p].ref, "load", 0)]
    /\ UNCHANGED <<blobsDir, manifests>>

\* RmDeleteManifestFailed with the error dropped and the command going on
RmDeleteManifestIgnored(p) ==
    /\ pc' = [pc EXCEPT ![p] = "rm_list"]
    /\ UNCHANGED <<blobsDir, manifests, loc, ret>>

\* what follows a failed storage.DeleteManifest: the error and os.Exit(1)
RmDeleteManifestFailed(p) ==
    /\ loc' = [loc EXCEPT ![p] = NoLoc]
    /\ pc' = [pc EXCEPT ![p] = "idle"]
    /\ ret' = [ret EXCEPT ![p] = RmExit(loc[p].ref, "deleting manifest", 0)]
    /\ UNCHANGED <<blobsDir, manifests>>

\* storage.DeleteManifest(name, tag): os.Remove(path)
RmDeleteManifest(p) ==
    /\ pc[p] = "rm_delete"
    /\ LET path == ManifestPath(loc[p].name, loc[p].tag)
       IN IF RemoveErr(path) = ""
          THEN /\ manifests' = Remove(manifests, path)
               /\ blobsDir' = BlobsAfterRemove(path)
               /\ loc' = MfdsAfterRemove(loc, path)
               /\ pc' = [pc EXCEPT ![p] = "rm_list"]
               /\ UNCHANGED ret
          ELSE RmDeleteManifestFailed(p)

\* os.Remove(path) fails although the file is there (EACCES, EROFS, ...)
RmDeleteManifestFail(p) ==
    /\ pc[p] = "rm_delete"
    /\ RemoveErr(ManifestPath(loc[p].name, loc[p].tag)) = ""
    /\ RmDeleteManifestFailed(p)

\* allRefs, _ := storage.ListManifests(); referenced := make(map[string]bool)
RmList(p) ==
    /\ pc[p] = "rm_list"
    /\ loc' = [loc EXCEPT ![p].allRefs = ListManifests.refs,
                          ![p].referenced = {},
                          ![p].i = 1]
    /\ pc' = [pc EXCEPT ![p] = AfterSweep(1, ListManifests.refs)]
    /\ UNCHANGED <<blobsDir, manifests, ret>>

\* RmList when ListManifests cannot read everything: os.ReadDir fails for
\* the name directories in unreadable, which are skipped, or (failed) for
\* the manifests directory, and the error that comes with nil is dropped
RmListFailing(p, unreadable, failed) ==
    /\ pc[p] = "rm_list"
    /\ LET allRefs == IF failed THEN <<>>
                      ELSE ListManifestsWith(unreadable).refs
       IN /\ loc' = [loc EXCEPT ![p].allRefs = allRefs,
                                ![p].referenced = {},
                                ![p].i = 1]
          /\ pc' = [pc EXCEPT ![p] = AfterSweep(1, allRefs)]
    /\ UNCHANGED <<blobsDir, manifests, ret>>

\* SweepAdds with a manifest that does not load taken to name every digest
SweepAddsAll(got) ==
    IF got.err = "" THEN Range(CollectDigests(got.m))
    ELSE {Digest(sep, Sha256(b)) : sep \in {"-", ":"}, b \in Payloads}

\* the digests one round of the sweep marks: those of otherM when it
\* loads, none when LoadManifest returns an error
SweepAdds(got) == IF got.err = "" THEN Range(CollectDigests(got.m)) ELSE {}

\* one round of `for _, otherRef := range allRefs`
RmSweep(p) ==
    /\ pc[p] = "rm_sweep"
    /\ LET other == ParseModelRef(loc[p].allRefs[loc[p].i])
           got == LoadManifest(other.name, other.tag)
       IN loc' = [loc EXCEPT ![p].referenced = @ \cup SweepAdds(got),
                             ![p].i = @ + 1]
    /\ pc' = [pc EXCEPT ![p] = AfterSweep(loc[p].i + 1, loc[p].allRefs)]
    /\ UNCHANGED <<blobsDir, manifests, ret>>

\* Unreferenced with the test inverted
Referenced(d, referenced) == d \in referenced

\* whether the deletion loop calls storage.DeleteBlob(d): !referenced[d]
Unreferenced(d, referenced) == d \notin referenced

\* the error of DeleteBlob(d), which is os.Remove(BlobPath(d))
DeleteBlobErr(d) == IF BlobPath(d) \in DOMAIN blobsDir THEN "" ELSE "not exist"

\* CountAfter with every call of DeleteBlob counted
CountAfterCall(deleted, err) == deleted + 1

\* if err := storage.DeleteBlob(d); err == nil { deleted++ }
CountAfter(deleted, err) == IF err = "" THEN deleted + 1 ELSE deleted

\* one round of `for _, d := range digests`; an error of DeleteBlob is
\* dropped and nothing is written for it
RmBlob(p) ==
    /\ pc[p] = "rm_blobs"
    /\ LET d == loc[p].digests[loc[p].j]
           called == Unreferenced(d, loc[p].referenced)
           err == DeleteBlobErr(d)
           gone == called /\ err = ""
       IN /\ blobsDir' = IF gone THEN Remove(blobsDir, BlobPath(d))
                         ELSE blobsDir
          /\ loc' = [(IF gone THEN FdsAfterRemove(loc, BlobPath(d)) ELSE loc)
                        EXCEPT ![p].j = @ + 1,
                               ![p].deleted = IF called THEN CountAfter(@, err)
                                              ELSE @]
    /\ pc' = [pc EXCEPT ![p] = AfterBlobs(loc[p].j + 1, loc[p].digests)]
    /\ UNCHANGED <<manifests, ret>>

\* fmt.Printf("Deleted %s (%d blobs removed)\n", ref, deleted)
RmPrint(p) ==
    /\ pc[p] = "rm_print"
    /\ ret' = [ret EXCEPT ![p] = RmExit(loc[p].ref, "", loc[p].deleted)]
    /\ loc' = [loc EXCEPT ![p] = NoLoc]
    /\ pc' = [pc EXCEPT ![p] = "idle"]
    /\ UNCHANGED <<blobsDir, manifests>>

RmPolicy(p, refs) ==
    \/ \E ref \in refs : RmExists(p, ref)
    \/ RmLoad(p)
    \/ RmDeleteManifest(p)
    \/ RmDeleteManifestFail(p)
    \/ RmList(p)
    \/ RmSweep(p)
    \/ RmBlob(p)
    \/ RmPrint(p)

(***************************************************************************)
(* The store after EnsureDirs: both areas exist and are empty.             *)
(***************************************************************************)
Init ==
    /\ blobsDir = << >>
    /\ manifests = (<<>> :> DirMark)
    /\ pc = [p \in Procs |-> "idle"]
    /\ loc = [p \in Procs |-> NoLoc]
    /\ ret = [p \in Procs |-> NoRet]

(***************************************************************************)
(* SpecBlobs: concurrent WriteBlob calls of all processes.                 *)
(***************************************************************************)
BlobsNext == \E p \in Procs : WriteBlob(p, Payloads) \/ WriteBlobKilled(p)

SpecBlobs == Init /\ [][BlobsNext]_vars

(***************************************************************************)
(* SpecSeq: a sequential history.  One process runs WriteBlob,             *)
(* SaveManifest, LoadManifest and `rm policy` one after the other.         *)
(***************************************************************************)
\* the reference strings given on the command line
SeqRefs == {<<"m">>, <<"m", Colon, "v2">>}

\* the digests a saved manifest names: those of two payloads, one of them
\* in both spellings
SeqDigests ==
    {Digest("-", Sha256(<<1>>)), Digest(":", Sha256(<<1>>)),
     Digest("-", Sha256(<<2>>))}

SeqManifests ==
    {Manifest(c, l) : c \in SeqDigests,
                      l \in {<<>>, <<Digest(":", Sha256(<<1>>))>>,
                             <<Digest("-", Sha256(<<2>>))>>}}

\* the payloads pulled: two that differ
SeqPayloads == {<<1>>, <<2>>}

SeqNext ==
    \/ WriteBlob(1, SeqPayloads)
    \/ SaveManifest(1, SeqRefs, SeqManifests)
    \/ SaveManifestKilled(1)
    \/ \E ref \in SeqRefs : LoadManifestCall(1, ref)
    \/ RmPolicy(1, SeqRefs)

SpecSeq == Init /\ [][SeqNext]_vars

(***************************************************************************)
(* SpecWrite: a sequential history of WriteBlob calls.  The processes     *)
(* call WriteBlob on every payload, one call at a time.                    *)
(***************************************************************************)
\* no handler of another process is running
Alone(p) == \A q \in Procs \ {p} : pc[q] = "idle"

WriteNext ==
    \E p \in Procs :
        /\ Alone(p)
        /\ WriteBlob(p, Payloads)

SpecWrite == Init /\ [][WriteNext]_vars

\* the step in which WriteBlob returns digest and size to its caller
WriteBlobReturns(p) ==
    /\ pc[p] = "wb_deferred"
    /\ pc'[p] = "idle"
    /\ ret'[p].op = "WriteBlob"
    /\ ret'[p].err = ""

\* C6: whenever WriteBlob(b) returns (d, n): n = Len(b), and in the store
\* it returns to BlobExists(d) holds, BlobSize(d) = n and OpenBlob(d) read
\* to the end is b.
C6_PutThenOpen ==
    [][\A p \in Procs :
          WriteBlobReturns(p) =>
              \A d \in {ret'[p].digest}, n \in {ret'[p].size} :
                  /\ n = Len(loc[p].b)
                  /\ BlobExists(d)'
                  /\ BlobSize(d)' = n
                  /\ OpenBlob(d)' = loc[p].b]_vars

\* a WriteBlob of a payload of the greatest length has returned its digest
\* and size, and the blob is stored
C6_Witness ==
    /\ pc[1] = "idle"
    /\ ret[1].op = "WriteBlob"
    /\ ret[1].err = ""
    /\ ret[1].size = MaxLen
    /\ BlobExists(ret[1].digest)

\* the errors the environment injects into a WriteBlob call
InjectedErrs == {"CreateTemp", "Copy", "EIO"}

\* the stored blob objects that hold the bytes b
ObjectsOf(b) == {n \in ListBlobs : blobsDir[n] = b}

\* C7: a WriteBlob(b) that runs while the blob of b is stored changes
\* neither the set of stored blobs nor their bytes in any step, fails only
\* on an injected I/O error, and returns the digest and size of the stored
\* blob, of which there is exactly one object.
C7_PutTwice ==
    [][\A p \in Procs :
          loc[p].op = "WriteBlob" =>
              \A b \in {loc[p].b} :
                  SprintfDigest(Sha256(b)) \in ListBlobs =>
                      /\ ListBlobs' = ListBlobs
                      /\ \A n \in ListBlobs : blobsDir'[n] = blobsDir[n]
                      /\ pc'[p] = "idle" =>
                            /\ ret'[p].err \in InjectedErrs \cup {""}
                            /\ ret'[p].err = "" =>
                                  /\ ret'[p].digest = SprintfDigest(Sha256(b))
                                  /\ ret'[p].size = Len(b)
                                  /\ Cardinality(ObjectsOf(b))' = 1]_vars

\* two calls of WriteBlob on a payload of the greatest length, one after
\* the other, have both returned, with the same digest and size
C7_Witness ==
    /\ \A p \in {1, 2} : pc[p] = "idle" /\ ret[p].op = "WriteBlob"
    /\ ret[1].err = ""
    /\ ret[1].size = MaxLen
    /\ ret[2] = ret[1]
    /\ Cardinality(ObjectsOf(OpenBlob(ret[1].digest))) = 1

(***************************************************************************)
(* Removal, in sequential histories (SpecSeq).                             *)
(***************************************************************************)
\* the stored manifest files that load
Loadable == {path \in ManifestFiles : Unmarshal(manifests[path]).err = ""}

\* the digest strings the manifest stored at path names
DigestsAt(path) == Range(CollectDigests(Unmarshal(manifests[path]).m))

\* the blob files the manifest stored at path refers to
BlobsAt(path) == {BlobPath(d) : d \in DigestsAt(path)}

\* the blob files this step removes
Removed == DOMAIN blobsDir \ DOMAIN blobsDir'

\* C9: a step of `rm policy` in which DeleteManifest leaves the target's
\* file in place ends the command with an error; that step and the steps
\* of the command before it change no blob and no manifest.
C9_ManifestDeleteFailureAborts ==
    [][\A p \in Procs :
          /\ (pc'[p] \in {"rm_load", "rm_delete"}) =>
                UNCHANGED <<blobsDir, manifests>>
          /\ (pc[p] = "rm_delete" /\ manifests' = manifests) =>
                /\ pc'[p] = "idle"
                /\ ret'[p].op = "rm"
                /\ ret'[p].err # ""
                /\ blobsDir' = blobsDir]_vars

\* `rm policy` ended on a failed DeleteManifest, its manifest is the only
\* one stored, and the blob of its config digest is stored
C9_Witness ==
    /\ pc[1] = "idle"
    /\ ret[1].op = "rm"
    /\ ret[1].err = "deleting manifest"
    /\ LET r == ParseModelRef(ret[1].ref)
       IN /\ ManifestFiles = {ManifestPath(r.name, r.tag)}
          /\ LoadManifest(r.name, r.tag).err = ""
          /\ BlobExists(LoadManifest(r.name, r.tag).m.config)

\* a manifest file is stored that does not load
SomeUnloadable == Loadable # ManifestFiles

LiveBlobs == UNION {BlobsAt(path) : path \in Loadable}

\* C1 as claimed: with every stored manifest loadable, a round of the
\* deletion loop of `rm policy` removes at most the blob of its candidate
\* digest, and never a blob that a manifest still stored refers to.
C1_RemovalSparesLiveBlobs ==
    [][\A p \in Procs :
          (pc[p] = "rm_blobs" /\ Loadable = ManifestFiles) =>
              /\ Removed \subseteq {BlobPath(loc[p].digests[loc[p].j])}
              /\ Removed \cap LiveBlobs = {}]_vars

\* the stored manifests that load and name the digest string d
NamedBy(d) == {path \in Loadable : d \in DigestsAt(path)}

\* C3 as claimed, for d = the digest WriteBlob(b) returns, the blob of d
\* stored with the bytes b and the removed manifest naming d: while exactly
\* one other manifest names d, no round of the deletion loop removes or
\* changes the blob; when no other manifest names d, the blob is gone once
\* the loop is over.
C3_SharedBlobOutlivesOneRemoval ==
    [][\A p \in Procs, b \in SeqPayloads :
          LET d == SprintfDigest(Sha256(b))
          IN (/\ pc[p] = "rm_blobs"
              /\ d \in Range(loc[p].digests)
              /\ BlobExists(d)
              /\ OpenBlob(d) = b) =>
                 /\ Cardinality(NamedBy(d)) = 1 =>
                       /\ BlobExists(d)'
                       /\ OpenBlob(d)' = b
                 /\ (NamedBy(d) = {} /\ pc'[p] = "rm_print") =>
                       ~BlobExists(d)']_vars

(***************************************************************************)
(* Concurrent WriteBlob calls (SpecBlobs, SpecSame).                       *)
(***************************************************************************)
\* C4 as claimed: every file of the blob area named sha256-<hex> holds
\* bytes whose SHA-256 is <hex>.
C4_FinalNamesHoldTheirDigest ==
    \A n \in ListBlobs : SprintfDigest(Sha256(blobsDir[n])) = n

\* the payload that every call of SpecSame writes
SamePayload == <<1, 2>>

\* SpecSame: the processes call WriteBlob concurrently, all on one payload
SameNext == \E p \in Procs : WriteBlob(p, {SamePayload})

SpecSame == Init /\ [][SameNext]_vars

\* C8 as claimed: of concurrent WriteBlob calls on one payload, each that
\* meets no injected I/O error returns the digest and size of the payload,
\* and the file of that digest never holds less than the whole payload.
C8_SameContentWritersBothSucceed ==
    /\ \A p \in Procs :
          (ret[p].op = "WriteBlob" /\ ret[p].err \notin InjectedErrs) =>
              ret[p] = OkWrite(SprintfDigest(Sha256(SamePayload)),
                               Len(SamePayload))
    /\ \A n \in ListBlobs : blobsDir[n] = SamePayload

(***************************************************************************)
(* SpecPull: `rm policy` of one process runs concurrently with the pulls   *)
(* of another.  A pull is a WriteBlob of the payload followed by a         *)
(* SaveManifest of a manifest whose config is the digest WriteBlob         *)
(* returned.                                                               *)
(***************************************************************************)
\* the second half of a pull: SaveManifest of the digest just written
PullSave(p, refs) ==
    /\ ret[p].op = "WriteBlob"
    /\ ret[p].err = ""
    /\ \E ref \in refs : SaveManifestMkdirAll(p, ref, Manifest(ret[p].digest, <<>>))

PullNext ==
    \/ RmPolicy(1, {<<"m">>})
    \/ WriteBlob(2, {<<1>>})
    \/ PullSave(2, SeqRefs)
    \/ SaveManifestOpen(2)
    \/ SaveManifestWrite(2)

SpecPull == Init /\ [][PullNext]_vars

\* C2 as claimed: removal excludes manifest writes, so that no run of
\* `rm policy m` beside the pulls ends, every call over, with the manifest
\* of the new reference m:v2 stored and the blob of its config digest
\* deleted.
C2_RemovalExcludesManifestWrites ==
    (\A p \in Procs : pc[p] = "idle") =>
        \A path \in Loadable \cap {ManifestPath(<<"m">>, <<"v2">>)} :
            BlobExists(Unmarshal(manifests[path]).m.config)

(***************************************************************************)
(* SpecSave: one process saves manifests under one reference while         *)
(* another loads that reference.                                           *)
(***************************************************************************)
SaveNext ==
    \/ SaveManifest(1, {<<"m">>}, SeqManifests)
    \/ LoadManifestCall(2, <<"m">>)

SpecSave == Init /\ [][SaveNext]_vars

\* C5 as claimed: a LoadManifest that runs while the reference is saved
\* returns a whole manifest, the one stored before or the new one (or
\* not-exist before the first save), never a parse error.
C5_LoadSeesWholeManifest ==
    \A p \in Procs : ret[p].op = "LoadManifest" => ret[p].err # "syntax"

(***************************************************************************)
(* What `rm policy` writes and counts, in the sequential histories of      *)
(* SpecSeq.                                                                *)
(***************************************************************************)
\* the LoadManifest of the round the sweep of p is at fails
SweepLoadFails(p) ==
    /\ pc[p] = "rm_sweep"
    /\ LET other == ParseModelRef(loc[p].allRefs[loc[p].i])
       IN LoadManifest(other.name, other.tag).err # ""

\* C11 as claimed: a round of the sweep whose LoadManifest fails writes a
\* warning, lets the command go on to the next round or to the deletions,
\* and leaves the target manifest removed.
C11_SweepLoadFailureWarns ==
    [][\A p \in Procs :
          SweepLoadFails(p) =>
              /\ Len(loc'[p].stderr) = Len(loc[p].stderr) + 1
              /\ pc'[p] \in {"rm_sweep", "rm_blobs"}
              /\ ManifestPath(loc[p].name, loc[p].tag) \notin DOMAIN manifests'
      ]_vars

\* the DeleteBlob of the round the deletion loop of p is at fails
BlobDeleteFails(p) ==
    /\ pc[p] = "rm_blobs"
    /\ LET d == loc[p].digests[loc[p].j]
       IN Unreferenced(d, loc[p].referenced) /\ DeleteBlobErr(d) # ""

\* C12 as claimed: a round of the deletion loop whose DeleteBlob fails
\* reports the failure for that blob, leaves the manifests as they are
\* and lets the command go on to the next candidate or to the report.
C12_BlobDeleteFailureReported ==
    [][\A p \in Procs :
          BlobDeleteFails(p) =>
              /\ Len(loc'[p].stderr) = Len(loc[p].stderr) + 1
              /\ manifests' = manifests
              /\ pc'[p] \in {"rm_blobs", "rm_print"}
      ]_vars

\* C13: once the target manifest is deleted the command runs on to its
\* report without an error, whatever the sweep retains, and the count it
\* reports is the number of files the blob area held when the command
\* started minus the number it holds at the report.
C13_CountIsBlobsRemoved ==
    [][\A p \in Procs :
          /\ pc[p] \in {"rm_list", "rm_sweep", "rm_blobs"} =>
                 /\ pc'[p] \in {"rm_sweep", "rm_blobs", "rm_print"}
                 /\ ret'[p] = NoRet
          /\ pc[p] = "rm_print" =>
                 /\ pc'[p] = "idle"
                 /\ ret'[p] = RmExit(loc[p].ref, "",
                                     Cardinality(loc[p].had)
                                         - Cardinality(DOMAIN blobsDir'))
                 /\ DOMAIN blobsDir' \subseteq loc[p].had
      ]_vars

\* the command is about to report one removed blob, having retained a
\* stored blob that a remaining manifest names
C13_Witness ==
    /\ pc[1] = "rm_print"
    /\ loc[1].deleted = 1
    /\ \E d \in Range(loc[1].digests) :
           d \in loc[1].referenced /\ BlobExists(d)

\* the blob files the digests of the removed manifest name
Candidates(p) == {BlobPath(d) : d \in Range(loc[p].digests)}

\* no manifest that remains stored and loads refers to one of them
NoneShared(p) == Candidates(p) \cap LiveBlobs = {}

\* C14 as claimed: removing a manifest that shares no blob with another
\* one takes 1 + (number of layers) files out of the blob area.
C14_RemovalTakesOnePerDigest ==
    \A p \in Procs :
        (pc[p] = "rm_print" /\ NoneShared(p)) =>
            Cardinality(loc[p].had) - Cardinality(DOMAIN blobsDir)
                = Len(loc[p].digests)

\* C14 as amended: removing a manifest that shares no blob with another
\* one takes out of the blob area the blob files its digests name that
\* were stored, each once.
C14_RemovalTakesStoredCandidates ==
    \A p \in Procs :
        (pc[p] = "rm_print" /\ NoneShared(p)) =>
            /\ loc[p].had \ DOMAIN blobsDir = Candidates(p) \cap loc[p].had
            /\ DOMAIN blobsDir \subseteq loc[p].had
            /\ Cardinality(loc[p].had) - Cardinality(DOMAIN blobsDir)
                   = Cardinality(Candidates(p) \cap loc[p].had)

\* a manifest of two digests that shared no blob was removed, and one
\* file left the blob area
C14_Witness ==
    /\ pc[1] = "rm_print"
    /\ NoneShared(1)
    /\ Len(loc[1].digests) = 2
    /\ Cardinality(loc[1].had) - Cardinality(DOMAIN blobsDir) = 1

(***************************************************************************)
(* SpecRefs: a sequential history of the manifest operations and commands  *)
(* on reference strings of every shape: with and without a tag, with an    *)
(* empty name or tag, with a slash.  One blob is stored at the start.      *)
(***************************************************************************)
\* "m", "m:v2", "v2", "m:", ":", ":m", "m/v2"
RefStrings ==
    {<<"m">>, <<"m", Colon, "v2">>, <<"v2">>, <<"m", Colon>>, <<Colon>>,
     <<Colon, "m">>, <<"m", Slash, "v2">>}

\* two manifests whose documents differ in length
RefsManifests ==
    {Manifest(SprintfDigest(Sha256(<<1>>)), <<>>),
     Manifest(SprintfDigest(Sha256(<<1>>)), <<Digest(":", Sha256(<<1>>))>>)}

\* the store after EnsureDirs and WriteBlob(<<1>>)
InitRefs ==
    /\ blobsDir = (SprintfDigest(Sha256(<<1>>)) :> <<1>>)
    /\ manifests = (<<>> :> DirMark)
    /\ pc = [p \in Procs |-> "idle"]
    /\ loc = [p \in Procs |-> NoLoc]
    /\ ret = [p \in Procs |-> NoRet]

RefsNext ==
    \/ SaveManifest(1, RefStrings, RefsManifests)
    \/ SaveManifestKilled(1)
    \/ \E ref \in RefStrings : LoadManifestCall(1, ref)
    \/ \E ref \in RefStrings : DeleteManifestCall(1, ref)
    \/ \E ref \in RefStrings : ShowCmd(1, ref)
    \/ \E ref \in RefStrings : HandleShow(1, ref)
    \/ \E unreadable \in SUBSET {<<"m">>, <<"v2">>} :
           ListManifestsCall(1, unreadable)
    \/ RmPolicy(1, RefStrings)

SpecRefs == InitRefs /\ [][RefsNext]_vars

\* the path of the manifest file of a reference string
PathOf(ref) == ManifestPath(ParseModelRef(ref).name, ParseModelRef(ref).tag)

\* process p has just returned from a call of op
Returned(p, op) == ret'[p] # ret[p] /\ ret'[p].op = op

\* C15 as claimed: LoadManifest and DeleteManifest of a reference that has
\* no stored manifest fail with the not-found error and change nothing.
C15_AbsentReferenceIsNotFound ==
    [][\A p \in Procs :
          ( /\ Returned(p, "LoadManifest") \/ Returned(p, "DeleteManifest")
            /\ ~IsFile(PathOf(ret'[p].ref)) ) =>
              /\ ret'[p].err = "not exist"
              /\ UNCHANGED <<blobsDir, manifests>>
      ]_vars

\* `rm policy` of p starts on, or is about to load, a reference whose path
\* holds no manifest file
RmOfAbsent(p, ref) == ~IsFile(PathOf(ref))

C17_CorruptIsNotNotFound ==
    [][\A p \in Procs :
          Returned(p, "LoadManifest") =>
              /\ Lookup(PathOf(ret'[p].ref)) = "not exist" =>
                     ret'[p].err = "not exist"
              /\ ( /\ IsFile(PathOf(ret'[p].ref))
                   /\ Unmarshal(manifests[PathOf(ret'[p].ref)]).err # "" ) =>
                     ret'[p].err \notin {"", "not exist"}
              /\ UNCHANGED <<blobsDir, manifests>>
      ]_vars

\* LoadManifest returned the parse error for a stored file
C17_Witness ==
    /\ ret[1].op = "LoadManifest"
    /\ ret[1].err = "syntax"
    /\ IsFile(PathOf(ret[1].ref))

\* C18 as claimed: for a reference whose manifest file is stored and is no
\* whole document, `show` and POST /api/show report something else than the
\* "model not found" they report for a reference with no manifest.
C18_ShowTellsCorruptFromMissing ==
    [][\A p \in Procs :
          ( /\ Returned(p, "show") \/ Returned(p, "api/show")
            /\ IsFile(PathOf(ret'[p].ref))
            /\ Unmarshal(manifests[PathOf(ret'[p].ref)]).err # "" ) =>
              ret'[p].err # "model not found"
      ]_vars

\* the "name:tag" string of the pair ParseModelRef gives for ref
NameTag(ref) == ParseModelRef(ref).name \o <<Colon>> \o ParseModelRef(ref).tag

\* C20 as claimed: between calls, ListManifests returns the "name:tag"
\* strings of exactly the references whose manifest file is stored.
C20_ListingIsStoredReferences ==
    (\A p \in Procs : pc[p] = "idle") =>
        /\ ListManifests.err = ""
        /\ Range(ListManifests.refs) =
               {NameTag(ref) : ref \in {r \in RefStrings : IsFile(PathOf(r))}}

(***************************************************************************)
(* SpecParse: ParseModelRef applied to every string of at most MaxRefLen   *)
(* tokens.                                                                 *)
(***************************************************************************)
ParseTokens == {"a", "b", "c", Colon}

ParseStrings == UNION {[1..n -> ParseTokens] : n \in 0..MaxRefLen}

InitParse ==
    /\ blobsDir = << >>
    /\ manifests = (<<>> :> DirMark)
    /\ pc = [p \in Procs |-> "idle"]
    /\ loc \in {[p \in Procs |->
                    IF p = 1 THEN [op |-> "ParseModelRef", ref |-> s]
                    ELSE NoLoc] : s \in ParseStrings}
    /\ ret = [p \in Procs |-> NoRet]

ParseNext == \E p \in Procs : ParseModelRefCall(p)

SpecParse == InitParse /\ [][ParseNext]_vars

\* C19: ParseModelRef returns for every string; for a string without a
\* colon the name is the string and the tag is "latest"; otherwise the
\* name holds no colon and name, ":" and tag put together are the string.
C19_ParseSplitsAtFirstColon ==
    \A p \in Procs :
        ret[p].op = "ParseModelRef" =>
            /\ ret[p].err = ""
            /\ IF Colon \notin Range(ret[p].ref)
               THEN ret[p].name = ret[p].ref /\ ret[p].tag = <<"latest">>
               ELSE /\ Colon \notin Range(ret[p].name)
                    /\ ret[p].name \o <<Colon>> \o ret[p].tag = ret[p].ref

\* "a:b:c" was parsed into "a" and "b:c"
C19_Witness ==
    /\ ret[1].op = "ParseModelRef"
    /\ ret[1].ref = <<"a", Colon, "b", Colon, "c">>
    /\ ret[1].name = <<"a">>
    /\ ret[1].tag = <<"b", Colon, "c">>

(***************************************************************************)
(* The manifest store, in the histories of SpecRefs.                       *)
(***************************************************************************)
\* what LoadManifest returns for the pair of every other reference string
OthersLoadAs(ref) ==
    [r \in {x \in RefStrings : ParseModelRef(x) # ParseModelRef(ref)} |->
        LoadManifest(ParseModelRef(r).name, ParseModelRef(r).tag)]

\* C21 as claimed: DeleteManifest of a reference whose manifest file is
\* stored succeeds, removes that file, and leaves the blobs and what every
\* other (name, tag) pair loads as they were.
C21_DeleteRemovesOneManifest ==
    [][\A p \in Procs :
          ( /\ Returned(p, "DeleteManifest")
            /\ IsFile(PathOf(ret'[p].ref)) ) =>
              \A ref \in {ret'[p].ref} :
                  /\ ret'[p].err = ""
                  /\ PathOf(ref) \notin DOMAIN manifests'
                  /\ blobsDir' = blobsDir
                  /\ OthersLoadAs(ref)' = OthersLoadAs(ref)
      ]_vars

\* how often s occurs in the sequence refs
Occurrences(refs, s) == Cardinality({i \in 1..Len(refs) : refs[i] = s})

\* C22 as claimed: every SaveManifest succeeds, and once it has returned,
\* LoadManifest of the reference returns the manifest just saved, whatever
\* was stored before, and ListManifests lists the reference once.
C22_LastWriteWins ==
    [][\A p \in Procs :
          Returned(p, "SaveManifest") =>
              \A ref \in {ret'[p].ref} :
                  /\ ret'[p].err \in {"", "killed"}
                  /\ ret'[p].err = "" =>
                         /\ LoadManifest(ParseModelRef(ref).name,
                                         ParseModelRef(ref).tag)'
                                = [err |-> "", m |-> loc[p].m]
                         /\ Occurrences(ListManifests.refs, NameTag(ref))' = 1
      ]_vars

\* C28: while the manifests directory is a directory, ListManifests
\* returns no error and lists, each once, exactly the files that lie at the
\* tag level of a name directory it could read: a file at the name level,
\* a directory at the tag level and every entry of an unreadable name
\* directory are left out, and nothing else is.
C28_ListingSkipsMalformed ==
    [][\A p \in Procs :
          (Returned(p, "ListManifests") /\ IsDir(<<>>)) =>
              /\ ret'[p].err = ""
              /\ \A i, j \in 1..Len(ret'[p].refs) :
                     ret'[p].refs[i] = ret'[p].refs[j] => i = j
              /\ Range(ret'[p].refs) =
                     {n \o <<Colon>> \o t :
                          <<n, t>> \in {x \in Range(SortedNames)
                                               \X Range(SortedNames) :
                                           /\ IsDir(<<x[1]>>)
                                           /\ x[1] \notin ret'[p].unreadable
                                           /\ IsFile(<<x[1], x[2]>>)}}
              /\ UNCHANGED <<blobsDir, manifests>>
      ]_vars

\* ListManifests returned m:latest alone from an area that also holds a
\* directory at the tag level of m and a manifest below the name v2, which
\* could not be read
C28_Witness ==
    /\ ret[1].op = "ListManifests"
    /\ ret[1].err = ""
    /\ ret[1].refs = << <<"m", Colon, "latest">> >>
    /\ ret[1].unreadable = {<<"v2">>}
    /\ IsDir(<< <<"m">>, <<"v2">> >>)
    /\ IsFile(<< <<"v2">>, <<"latest">> >>)

(***************************************************************************)
(* Failing WriteBlob calls, in sequential histories (SpecWrite).           *)
(***************************************************************************)
\* the files under a final name, with their bytes
FinalFiles == [n \in ListBlobs |-> blobsDir[n]]

\* C23: a WriteBlob call that fails returns an error and leaves the blob
\* area without its temporary file and with the final-name files it found.
\* A failing os.CreateTemp changes no file; the only step of a call that
\* creates or changes a final-name file is a rename, and the call then
\* returns without error; what the call returns is the outcome set before
\* its deferred removal; and a call that returns an error leaves no file
\* under its temporary name.
C23_FailedWriteLeavesNothing ==
    [][\A p \in Procs :
          /\ (pc[p] = "idle" /\ pc'[p] = "idle" /\ Returned(p, "WriteBlob")) =>
                /\ ret'[p].err = "CreateTemp"
                /\ blobsDir' = blobsDir
          /\ (loc[p].op = "WriteBlob" /\ FinalFiles' # FinalFiles) =>
                /\ pc[p] = "wb_rename"
                /\ loc'[p].out.err = ""
          /\ (pc[p] = "wb_deferred" /\ pc'[p] = "idle") =>
                /\ ret'[p] = loc[p].out
                /\ FinalFiles' = FinalFiles
                /\ ret'[p].err # "" =>
                      /\ ret'[p].err \in InjectedErrs
                      /\ loc[p].tmpPath \notin DOMAIN blobsDir'
                      /\ DOMAIN blobsDir' \cap TmpNames = {}]_vars

\* a WriteBlob call whose rename failed has returned the error; a blob that
\* an earlier call stored is still there and no temporary file is
C23_Witness ==
    /\ pc[1] = "idle"
    /\ ret[1].op = "WriteBlob"
    /\ ret[1].err = "EIO"
    /\ ListBlobs # {}
    /\ DOMAIN blobsDir \cap TmpNames = {}

(***************************************************************************)
(* What destroys a blob, in sequential histories (SpecSeq).                *)
(***************************************************************************)
\* the final-name files that this step removes or changes
Destroyed ==
    {n \in ListBlobs : n \notin DOMAIN blobsDir' \/ blobsDir'[n] # blobsDir[n]}

\* C24 as claimed: a step removes or changes a stored blob only when it is
\* a round of the deletion loop of `rm policy`, which runs after the
\* reference was removed, and only when no stored manifest that loads
\* refers to the blob; no step of WriteBlob, SaveManifest or LoadManifest
\* does.
C24_OnlyRemovalDestroysBlobs ==
    [][\A n \in Destroyed :
          /\ \E p \in Procs : pc[p] = "rm_blobs" /\ loc[p].op = "rm"
          /\ n \notin LiveBlobs]_vars

\* C30 as claimed: a round of the deletion loop of `rm policy` keeps the
\* blob file of its candidate digest whenever a stored manifest that loads
\* refers to that file, in whichever spelling the manifest names it.
C30_EitherSpellingRetains ==
    [][\A p \in Procs :
          pc[p] = "rm_blobs" =>
              \A d \in {loc[p].digests[loc[p].j]} :
                  (/\ \E path \in Loadable : BlobPath(d) \in BlobsAt(path)
                   /\ BlobExists(d)) =>
                      /\ BlobExists(d)'
                      /\ OpenBlob(d)' = OpenBlob(d)]_vars

(***************************************************************************)
(* The blob API called on its own (SpecApi): DeleteBlob, BlobSize,         *)
(* OpenBlob, BlobExists and ListBlobs of one process, while another runs   *)
(* EnsureDirs and WriteBlob, on a store that starts without its blob area. *)
(***************************************************************************)
\* EnsureDirs(): os.MkdirAll of the root, the blobs and the manifests
\* directory, in this order, returning at the first error
EnsureDirs(p) ==
    /\ pc[p] = "idle"
    /\ blobsDir' = Remove(blobsDir, NoBlobsDir)
    /\ manifests' = IF MkdirAllErr(<<>>) = "" THEN MkdirAll(<<>>) ELSE manifests
    /\ ret' = [ret EXCEPT ![p] = [op |-> "EnsureDirs", err |-> MkdirAllErr(<<>>)]]
    /\ UNCHANGED <<pc, loc>>

\* the error of os.Stat(path) and of os.Open(path) for the path of digest
StatErr(digest) == IF BlobPath(digest) \in DOMAIN blobsDir THEN "" ELSE "not exist"

\* ExistsResult without the os.IsNotExist branch
ExistsResultRaw(err) == [exists |-> err = "", err |-> err]

\* if os.IsNotExist(err) { return false, nil }; return err == nil, err
ExistsResult(err) ==
    IF err = "not exist" THEN [exists |-> FALSE, err |-> ""]
    ELSE [exists |-> err = "", err |-> err]

\* a caller of BlobExists(digest)
BlobExistsCall(p, digest) ==
    /\ pc[p] = "idle"
    /\ ret' = [ret EXCEPT ![p] =
                  [op |-> "BlobExists", digest |-> digest,
                   exists |-> ExistsResult(StatErr(digest)).exists,
                   err |-> ExistsResult(StatErr(digest)).err]]
    /\ UNCHANGED <<blobsDir, manifests, pc, loc>>

\* a caller of BlobSize(digest): 0 and the error of os.Stat, or info.Size()
BlobSizeCall(p, digest) ==
    /\ pc[p] = "idle"
    /\ ret' = [ret EXCEPT ![p] =
                  [op |-> "BlobSize", digest |-> digest,
                   err |-> StatErr(digest),
                   size |-> IF StatErr(digest) = "" THEN BlobSize(digest)
                            ELSE 0]]
    /\ UNCHANGED <<blobsDir, manifests, pc, loc>>

\* a caller of OpenBlob(digest) who reads the file to its end: nil and the
\* error of os.Open, or the bytes
OpenBlobCall(p, digest) ==
    /\ pc[p] = "idle"
    /\ ret' = [ret EXCEPT ![p] =
                  [op |-> "OpenBlob", digest |-> digest,
                   err |-> StatErr(digest),
                   data |-> IF StatErr(digest) = "" THEN OpenBlob(digest)
                            ELSE <<>>]]
    /\ UNCHANGED <<blobsDir, manifests, pc, loc>>

\* DeleteBlobCall that leaves a blob in place to which a stored manifest
\* refers
DeleteBlobCallUnreferenced(p, digest) ==
    /\ pc[p] = "idle"
    /\ LET gone == DeleteBlobErr(digest) = "" /\ BlobPath(digest) \notin LiveBlobs
       IN /\ blobsDir' = IF gone THEN Remove(blobsDir, BlobPath(digest))
                         ELSE blobsDir
          /\ loc' = IF gone THEN FdsAfterRemove(loc, BlobPath(digest)) ELSE loc
          /\ ret' = [ret EXCEPT ![p] =
                        [op |-> "DeleteBlob", digest |-> digest,
                         err |-> IF gone THEN "" ELSE "not exist"]]
    /\ UNCHANGED <<manifests, pc>>

\* a caller of DeleteBlob(digest): os.Remove(path)
DeleteBlobCall(p, digest) ==
    /\ pc[p] = "idle"
    /\ LET gone == DeleteBlobErr(digest) = ""
       IN /\ blobsDir' = IF gone THEN Remove(blobsDir, BlobPath(digest))
                         ELSE blobsDir
          /\ loc' = IF gone THEN FdsAfterRemove(loc, BlobPath(digest)) ELSE loc
    /\ ret' = [ret EXCEPT ![p] =
                  [op |-> "DeleteBlob", digest |-> digest,
                   err |-> DeleteBlobErr(digest)]]
    /\ UNCHANGED <<manifests, pc>>

\* ListBlobs(): []string{}, nil when os.ReadDir fails with os.IsNotExist,
\* else the names of the entries that pass the filter
ListBlobsResult ==
    IF NoBlobsDir \in DOMAIN blobsDir
    THEN [err |-> "", digests |-> {}]
    ELSE [err |-> "", digests |-> ListBlobs]

\* a caller of ListBlobs()
ListBlobsCall(p) ==
    /\ pc[p] = "idle"
    /\ ret' = [ret EXCEPT ![p] =
                  [op |-> "ListBlobs", err |-> ListBlobsResult.err,
                   digests |-> ListBlobsResult.digests]]
    /\ UNCHANGED <<blobsDir, manifests, pc, loc>>

\* the digests asked for: that of <<1>> in both spellings, that of <<2>>
ApiDigests ==
    {Digest("-", Sha256(<<1>>)), Digest(":", Sha256(<<1>>)),
     Digest("-", Sha256(<<2>>))}

\* the manifest saved as m:latest refers to the blob of <<1>>
ApiManifests == {Manifest(SprintfDigest(Sha256(<<1>>)), <<>>)}

InitApi ==
    /\ blobsDir = (NoBlobsDir :> <<>>)
    /\ manifests = (<<>> :> DirMark)
    /\ pc = [p \in Procs |-> "idle"]
    /\ loc = [p \in Procs |-> NoLoc]
    /\ ret = [p \in Procs |-> NoRet]

ApiNext ==
    \/ EnsureDirs(1)
    \/ WriteBlob(1, SeqPayloads)
    \/ SaveManifest(2, {<<"m">>}, ApiManifests)
    \/ \E d \in ApiDigests : DeleteBlobCall(2, d)
    \/ \E d \in ApiDigests : BlobSizeCall(2, d)
    \/ \E d \in ApiDigests : OpenBlobCall(2, d)
    \/ \E d \in ApiDigests : BlobExistsCall(2, d)
    \/ ListBlobsCall(2)

SpecApi == InitApi /\ [][ApiNext]_vars

\* C25: DeleteBlob(d) of a digest without a stored blob returns the
\* not-found error and changes nothing; of a digest with a stored blob it
\* returns no error and removes the file of d and nothing else, whether or
\* not a stored manifest refers to it; it changes no manifest.
C25_DeleteBlobIsUnconditional ==
    [][\A p \in Procs :
          Returned(p, "DeleteBlob") =>
              \A d \in {ret'[p].digest} :
                  /\ manifests' = manifests
                  /\ ~BlobExists(d) =>
                        /\ ret'[p].err = "not exist"
                        /\ blobsDir' = blobsDir
                  /\ BlobExists(d) =>
                        /\ ret'[p].err = ""
                        /\ blobsDir' = Remove(blobsDir, BlobPath(d))]_vars

\* DeleteBlob has removed the blob to which the stored manifest m:latest
\* refers
C25_Witness ==
    /\ ret[2].op = "DeleteBlob"
    /\ ret[2].err = ""
    /\ ~BlobExists(ret[2].digest)
    /\ BlobPath(ret[2].digest) \in LiveBlobs

\* C26: for a digest without a stored blob, BlobSize and OpenBlob return
\* the not-found error, BlobExists returns false and no error, and none of
\* them changes the blob area or a manifest.
C26_AbsentBlobIsNotFound ==
    [][\A p \in Procs :
          /\ (Returned(p, "BlobSize") \/ Returned(p, "OpenBlob")
                 \/ Returned(p, "BlobExists")) =>
                UNCHANGED <<blobsDir, manifests>>
          /\ ((Returned(p, "BlobSize") \/ Returned(p, "OpenBlob"))
                 /\ BlobPath(ret'[p].digest) \notin DOMAIN blobsDir) =>
                ret'[p].err = "not exist"
          /\ (Returned(p, "BlobExists")
                 /\ BlobPath(ret'[p].digest) \notin DOMAIN blobsDir) =>
                /\ ret'[p].exists = FALSE
                /\ ret'[p].err = ""]_vars

\* BlobExists has returned false for a digest of which no blob is stored,
\* while another blob and a temporary file are
C26_Witness ==
    /\ ret[2].op = "BlobExists"
    /\ ret[2].exists = FALSE
    /\ ret[2].err = ""
    /\ ListBlobs # {}
    /\ DOMAIN blobsDir \cap TmpNames # {}

\* C27 as claimed: ListBlobs returns, without error, the digests d for
\* which BlobExists(d) holds and no others, no name of a temporary file,
\* and nothing while the blob area does not exist.
C27_ListBlobsIsBlobExists ==
    [][\A p \in Procs :
          Returned(p, "ListBlobs") =>
              /\ ret'[p].err = ""
              /\ \A d \in ApiDigests : d \in ret'[p].digests <=> BlobExists(d)
              /\ ret'[p].digests \cap TmpNames = {}
              /\ NoBlobsDir \in DOMAIN blobsDir => ret'[p].digests = {}]_vars

\* C27 as amended: ListBlobs returns, without error, the file names
\* sha256-<hex> of the stored blobs and nothing else: for a digest d in
\* either spelling, BlobExists(d) holds exactly when the sha256-<hex>
\* spelling of d is in the result; no name of a temporary file is, and the
\* result is empty while the blob area does not exist.  It changes nothing.
C27_ListBlobsIsStoredNames ==
    [][\A p \in Procs :
          Returned(p, "ListBlobs") =>
              /\ ret'[p].err = ""
              /\ \A d \in ApiDigests :
                     BlobPath(d) \in ret'[p].digests <=> BlobExists(d)
              /\ ret'[p].digests \subseteq {BlobPath(d) : d \in ApiDigests}
              /\ ret'[p].digests \cap TmpNames = {}
              /\ NoBlobsDir \in DOMAIN blobsDir => ret'[p].digests = {}
              /\ UNCHANGED <<blobsDir, manifests>>]_vars

\* ListBlobs has returned the name of the one stored blob while a
\* temporary file of a write in progress lies in the blob area
C27_Witness ==
    /\ ret[2].op = "ListBlobs"
    /\ ret[2].err = ""
    /\ ret[2].digests = {SprintfDigest(Sha256(<<1>>))}
    /\ ListBlobs = ret[2].digests
    /\ DOMAIN blobsDir \cap TmpNames # {}
    /\ pc[1] = "wb_copy"

(***************************************************************************)
(* Config and its JSON form (SpecConfig).  A string is a sequence of       *)
(* characters; a JSON object is a sequence of members <<key, value>>       *)
(* between an opening and a closing member; a value is a record with its   *)
(* kind ("string", "number", "array", "null") and what it holds.           *)
(***************************************************************************)
\* a byte that is no valid UTF-8, and U+FFFD, which json.Marshal writes in
\* its place
Bad == "\\xff"
Repl == "\\ufffd"

\* Environments []string: the nil slice, or a slice of strings
NilSlice == [nil |-> TRUE, elems |-> <<>>]
Slice(l) == [nil |-> FALSE, elems |-> l]

StringKeys == {"architecture", "family", "parameter_size", "hf_repo",
               "embodiment_tag", "data_config"}

\* var c Config
ZeroConfig ==
    [architecture |-> <<>>, family |-> <<>>, parameter_size |-> <<>>,
     action_dim |-> 0, image_size |-> 0, environments |-> NilSlice,
     hf_repo |-> <<>>, embodiment_tag |-> <<>>, data_config |-> <<>>]

\* a string as json.Marshal writes it and json.Unmarshal reads it back
EncodeString(str) ==
    [i \in 1..Len(str) |-> IF str[i] = Bad THEN Repl ELSE str[i]]

JNull == [kind |-> "null", v |-> <<>>]
JString(str) == [kind |-> "string", v |-> EncodeString(str)]
JNumber(n) == [kind |-> "number", v |-> n]
JArray(sl) ==
    IF sl.nil THEN JNull
    ELSE [kind |-> "array",
          v |-> [i \in 1..Len(sl.elems) |-> EncodeString(sl.elems[i])]]

OpenObj == <<"{", JNull>>
CloseObj == <<"}", JNull>>

\* a string field tagged omitempty: no member when the string is empty
OmitEmpty(key, str) == IF str = <<>> THEN <<>> ELSE << <<key, JString(str)>> >>

\* ToJSON with `environments` tagged omitempty
ToJSONOmitEnvironments(c) ==
    <<OpenObj,
      <<"architecture", JString(c.architecture)>>,
      <<"family", JString(c.family)>>,
      <<"parameter_size", JString(c.parameter_size)>>,
      <<"action_dim", JNumber(c.action_dim)>>,
      <<"image_size", JNumber(c.image_size)>> >>
      \o (IF c.environments.elems = <<>> THEN <<>>
          ELSE << <<"environments", JArray(c.environments)>> >>)
      \o OmitEmpty("hf_repo", c.hf_repo)
      \o OmitEmpty("embodiment_tag", c.embodiment_tag)
      \o OmitEmpty("data_config", c.data_config)
      \o <<CloseObj>>

\* c.ToJSON(): json.MarshalIndent(c, "", "  ") writes the fields in the
\* order of the struct, under the keys of their tags
ToJSON(c) ==
    <<OpenObj,
      <<"architecture", JString(c.architecture)>>,
      <<"family", JString(c.family)>>,
      <<"parameter_size", JString(c.parameter_size)>>,
      <<"action_dim", JNumber(c.action_dim)>>,
      <<"image_size", JNumber(c.image_size)>>,
      <<"environments", JArray(c.environments)>> >>
      \o OmitEmpty("hf_repo", c.hf_repo)
      \o OmitEmpty("embodiment_tag", c.embodiment_tag)
      \o OmitEmpty("data_config", c.data_config)
      \o <<CloseObj>>

\* the kind of value that json.Unmarshal stores in the field of key
KindOf(key) ==
    IF key \in StringKeys THEN "string"
    ELSE IF key \in {"action_dim", "image_size"} THEN "number"
    ELSE "array"

\* json.Unmarshal of one member into c: an unknown key and a null are
\* skipped
SetField(c, key, val) ==
    IF key \notin DOMAIN ZeroConfig \/ val.kind = "null" THEN c
    ELSE IF key = "environments"
    THEN [c EXCEPT !.environments = Slice(val.v)]
    ELSE [c EXCEPT ![key] = val.v]

RECURSIVE DecodeMembers(_, _)
DecodeMembers(c, members) ==
    IF members = <<>> THEN c
    ELSE DecodeMembers(SetField(c, Head(members)[1], Head(members)[2]),
                       Tail(members))

\* white space, which may follow a JSON value, and the zero byte, which
\* may not
Space == <<" ", JNull>>
NulByte == <<"\\x00", JNull>>

\* ConfigFromJSON(data): json.Unmarshal into a zero Config; nil and the
\* error when data is no object followed by nothing but white space, or a
\* value has the wrong kind
ConfigFromJSON(data) ==
    LET closes == {i \in 1..Len(data) : data[i][1] = "}"}
    IN IF data = <<>> \/ data[1][1] # "{" \/ closes = {}
       THEN [err |-> "syntax", c |-> ZeroConfig]
       ELSE LET end == CHOOSE i \in closes : \A j \in closes : i <= j
                members == SubSeq(data, 2, end - 1)
            IN IF \/ \E i \in (end + 1)..Len(data) : data[i][1] # Space[1]
                  \/ \E i \in 1..Len(members) :
                         members[i][1] \in {"{", Space[1], NulByte[1]}
               THEN [err |-> "syntax", c |-> ZeroConfig]
               ELSE IF \E i \in 1..Len(members) :
                          /\ members[i][1] \in DOMAIN ZeroConfig
                          /\ members[i][2].kind
                                 \notin {"null", KindOf(members[i][1])}
               THEN [err |-> "type", c |-> ZeroConfig]
               ELSE [err |-> "", c |-> DecodeMembers(ZeroConfig, members)]

\* the Config values: strings of which one is no valid UTF-8, two numbers,
\* and up to MaxEnvs environments or the nil slice
Configs ==
    LET strings == {<<>>, <<"x">>, <<Bad>>}
        ints == {0, 7}
        names == {<<"libero">>, <<"aloha">>}
        envs == {NilSlice} \cup
                    {Slice(l) : l \in UNION {[1..n -> names] : n \in 0..MaxEnvs}}
    IN [architecture : strings, family : strings, parameter_size : strings,
        action_dim : ints, image_size : ints, environments : envs,
        hf_repo : strings, embodiment_tag : strings, data_config : strings]

\* a caller of c.ToJSON()
ToJSONCall(p) ==
    /\ pc[p] = "idle"
    /\ loc[p].op = "Config"
    /\ loc' = [loc EXCEPT ![p] =
                  [op |-> "ToJSON", c |-> loc[p].c, data |-> ToJSON(loc[p].c)]]
    /\ UNCHANGED <<blobsDir, manifests, pc, ret>>

\* the caller hands the bytes to ConfigFromJSON
ConfigFromJSONCall(p) ==
    /\ pc[p] = "idle"
    /\ loc[p].op = "ToJSON"
    /\ ret' = [ret EXCEPT ![p] =
                  [op |-> "ConfigFromJSON",
                   err |-> ConfigFromJSON(loc[p].data).err,
                   c |-> ConfigFromJSON(loc[p].data).c]]
    /\ loc' = [loc EXCEPT ![p] = [op |-> "ConfigFromJSON", c |-> loc[p].c]]
    /\ UNCHANGED <<blobsDir, manifests, pc>>

InitConfig ==
    /\ blobsDir = << >>
    /\ manifests = (<<>> :> DirMark)
    /\ pc = [p \in Procs |-> "idle"]
    /\ \E c \in Configs :
           loc = [p \in Procs |-> IF p = 1 THEN [op |-> "Config", c |-> c]
                                  ELSE NoLoc]
    /\ ret = [p \in Procs |-> NoRet]

ConfigNext == \E p \in Procs : ToJSONCall(p) \/ ConfigFromJSONCall(p)

SpecConfig == InitConfig /\ [][ConfigNext]_vars

\* every string of c is valid UTF-8
WellFormed(c) ==
    /\ \A key \in StringKeys : Bad \notin Range(c[key])
    /\ \A i \in 1..Len(c.environments.elems) :
           Bad \notin Range(c.environments.elems[i])

\* C29: for every well-formed Config c, ConfigFromJSON(c.ToJSON()) returns
\* no error and a Config equal to c in every field, the environments in
\* their order; an optional field that is empty has no key in the JSON and
\* comes back empty.
C29_ConfigRoundTrip ==
    [][\A p \in Procs :
          (Returned(p, "ConfigFromJSON") /\ WellFormed(loc[p].c)) =>
              /\ ret'[p].err = ""
              /\ ret'[p].c = loc[p].c
              /\ \A key \in {"hf_repo", "embodiment_tag", "data_config"} :
                     loc[p].c[key] = <<>> =>
                         /\ \A i \in 1..Len(loc[p].data) :
                                loc[p].data[i][1] # key
                         /\ ret'[p].c[key] = <<>>]_vars

\* a Config with two environments, one optional field set and two empty
\* has come back from its JSON as it was
C29_Witness ==
    /\ ret[1].op = "ConfigFromJSON"
    /\ ret[1].err = ""
    /\ ret[1].c = loc[1].c
    /\ ret[1].c.architecture = <<"x">>
    /\ ret[1].c.action_dim = 7
    /\ ret[1].c.environments = Slice(<< <<"libero">>, <<"aloha">> >>)
    /\ ret[1].c.embodiment_tag = <<"x">>
    /\ ret[1].c.hf_repo = <<>>
    /\ ret[1].c.data_config = <<>>

(***************************************************************************)
(* The deferred cleanup among concurrent WriteBlob calls (SpecBlobs).      *)
(***************************************************************************)
\* C39 as claimed: the step in which a WriteBlob call runs its deferred
\* os.Remove and returns takes away no temporary file of another call that
\* is still copying or about to rename, and no WriteBlob call returns the
\* error of a rename that found its temporary file gone.
C39_CleanupRemovesOwnTempOnly ==
    [][\A p \in Procs :
          /\ (pc[p] = "wb_deferred" /\ pc'[p] = "idle") =>
                \A q \in Procs \ {p} :
                    (/\ pc[q] \in {"wb_copy", "wb_rename"}
                     /\ loc[q].tmpPath \in DOMAIN blobsDir) =>
                        loc[q].tmpPath \in DOMAIN blobsDir'
          /\ Returned(p, "WriteBlob") =>
                ret'[p].err \in InjectedErrs \cup {"", "killed"}]_vars

(***************************************************************************)
(* `rm policy` on a manifest that does not parse (SpecSeq).                *)
(***************************************************************************)
\* C34: when `rm policy` comes to load a manifest whose file is stored and
\* does not parse, it ends there with an error and a count of 0, and
\* neither that step nor the check of existence before it changes a
\* manifest or a blob.
C34_RmOfUnparsableAborts ==
    [][\A p \in Procs :
          /\ (pc[p] = "idle" /\ pc'[p] = "rm_load") =>
                UNCHANGED <<blobsDir, manifests>>
          /\ (/\ pc[p] = "rm_load"
              /\ IsFile(ManifestPath(loc[p].name, loc[p].tag))
              /\ LoadManifest(loc[p].name, loc[p].tag).err # "") =>
                /\ pc'[p] = "idle"
                /\ ret'[p].op = "rm"
                /\ ret'[p].err # ""
                /\ ret'[p].deleted = 0
                /\ UNCHANGED <<blobsDir, manifests>>]_vars

\* `rm policy` has ended on the error of LoadManifest; the manifest file it
\* could not parse and a blob are still stored
C34_Witness ==
    /\ pc[1] = "idle"
    /\ ret[1].op = "rm"
    /\ ret[1].err = "load"
    /\ IsFile(PathOf(ret[1].ref))
    /\ LoadManifest(ParseModelRef(ret[1].ref).name,
                    ParseModelRef(ret[1].ref).tag).err # ""
    /\ ListBlobs # {}

(***************************************************************************)
(* One manifest per (name, tag) pair (SpecRefs).                           *)
(***************************************************************************)
\* what ManifestExists returns for the references whose pair is not that
\* of ref
OthersExistAs(ref) ==
    [r \in {x \in RefStrings : ParseModelRef(x) # ParseModelRef(ref)} |->
        ManifestExists(ParseModelRef(r).name, ParseModelRef(r).tag)]

\* this step belongs to a SaveManifest or a DeleteManifest of p on ref
SavesOrDeletes(p, ref) ==
    \/ loc[p].op = "SaveManifest" /\ loc[p].ref = ref
    \/ loc'[p].op = "SaveManifest" /\ loc'[p].ref = ref
    \/ Returned(p, "DeleteManifest") /\ ret'[p].ref = ref

\* C32 as claimed: no step of a SaveManifest or a DeleteManifest on the
\* pair of one reference changes what LoadManifest or ManifestExists
\* returns for a reference with another pair.
C32_DistinctPairsDistinctManifests ==
    [][\A p \in Procs, ref \in RefStrings :
          SavesOrDeletes(p, ref) =>
              /\ OthersLoadAs(ref)' = OthersLoadAs(ref)
              /\ OthersExistAs(ref)' = OthersExistAs(ref)]_vars

(***************************************************************************)
(* References that lead out of the manifest area (SpecEscape): a           *)
(* sequential history of WriteBlob, SaveManifest of m and m:v2, and        *)
(* LoadManifest, DeleteManifest and `rm policy` on these and on            *)
(* "../blobs:sha256-1".                                                    *)
(***************************************************************************)
EscapeRefs ==
    SeqRefs \cup {<<DotDot, Slash, "blobs", Colon, "sha256", "-", "1">>}

EscapeNext ==
    \/ WriteBlob(1, SeqPayloads)
    \/ SaveManifest(1, SeqRefs, ApiManifests)
    \/ \E ref \in EscapeRefs : LoadManifestCall(1, ref)
    \/ \E ref \in EscapeRefs : DeleteManifestCall(1, ref)
    \/ RmPolicy(1, EscapeRefs)

SpecEscape == Init /\ [][EscapeNext]_vars

\* C33 as claimed: no step of LoadManifest, SaveManifest or DeleteManifest,
\* and no step of `rm policy` before its deletion loop (the check of
\* existence, the load, the removal of the manifest, the sweep), removes or
\* changes a file of the blob area, whatever the reference.
C33_ManifestOpsStayInArea ==
    [][\A p \in Procs :
          (\/ Returned(p, "LoadManifest")
           \/ Returned(p, "DeleteManifest")
           \/ loc[p].op = "SaveManifest"
           \/ loc'[p].op = "SaveManifest"
           \/ pc[p] \in {"rm_load", "rm_delete", "rm_list", "rm_sweep"}
           \/ pc'[p] = "rm_load") =>
              blobsDir' = blobsDir]_vars

(***************************************************************************)
(* `rm policy` when the references cannot all be listed (SpecUnreadable):  *)
(* the sequential histories of SpecSeq, with os.ReadDir failing at will.   *)
(***************************************************************************)
UnreadableNext ==
    \/ SeqNext
    \/ \E unreadable \in SUBSET {<<"m">>}, failed \in BOOLEAN :
           /\ unreadable # {} \/ failed
           /\ RmListFailing(1, unreadable, failed)

SpecUnreadable == Init /\ [][UnreadableNext]_vars

\* C31 as claimed: a round of the deletion loop of `rm policy` removes no
\* blob when the references the command listed are not those of the
\* manifests on disk.
C31_PartialListingDeletesNothing ==
    [][\A p \in Procs :
          (/\ pc[p] = "rm_blobs"
           /\ Range(loc[p].allRefs) # Range(ListManifests.refs)) =>
              Removed = {}]_vars

(***************************************************************************)
(* Two `rm policy` commands at once (SpecTwoRm).  The store holds the      *)
(* blobs of <<1>> and <<2>> and the manifests m:latest and m:v2, which     *)
(* both name the blob of <<1>>; process 1 removes m:latest, process 2      *)
(* m:v2.                                                                   *)
(***************************************************************************)
SharedBlob == SprintfDigest(Sha256(<<1>>))
OtherBlob == SprintfDigest(Sha256(<<2>>))

\* the manifests the two references can have: each names the shared blob,
\* and may name the other blob as a layer
TwoRmManifests ==
    {Manifest(SharedBlob, l) : l \in {<<>>, <<OtherBlob>>, <<SharedBlob>>}}

InitTwoRm ==
    /\ blobsDir = (SharedBlob :> <<1>>) @@ (OtherBlob :> <<2>>)
    /\ \E a, b \in TwoRmManifests :
           manifests = (<<>> :> DirMark) @@ (<< <<"m">> >> :> DirMark)
                          @@ (<< <<"m">>, <<"latest">> >> :> MarshalIndent(a))
                          @@ (<< <<"m">>, <<"v2">> >> :> MarshalIndent(b))
    /\ pc = [p \in Procs |-> "idle"]
    /\ loc = [p \in Procs |-> NoLoc]
    /\ ret = [p \in Procs |-> NoRet]

TwoRmNext ==
    \/ RmPolicy(1, {<<"m">>})
    \/ RmPolicy(2, {<<"m", Colon, "v2">>})

SpecTwoRm == InitTwoRm /\ [][TwoRmNext]_vars

\* both commands have ended without error
BothRemoved ==
    \A p \in Procs : pc[p] = "idle" /\ ret[p].op = "rm" /\ ret[p].err = ""

\* C35: once both commands have ended without error, the shared blob is
\* gone, no blob that only the two manifests named is left, and the two
\* counts add up to the number of blobs that were removed.
C35_ConcurrentRemovalsReclaim ==
    BothRemoved =>
        /\ ~BlobExists(SharedBlob)
        /\ ret[1].deleted + ret[2].deleted =
               Cardinality({SharedBlob, OtherBlob} \ DOMAIN blobsDir)

\* both commands have ended, each reporting one removed blob: the first to
\* sweep kept the shared blob for the other's manifest, the last removed it
C35_Witness ==
    /\ BothRemoved
    /\ ret[1].deleted = 1
    /\ ret[2].deleted = 1
    /\ DOMAIN blobsDir = {}

(***************************************************************************)
(* Pulls and removals one after the other (SpecGc).  A pull is a WriteBlob *)
(* of a payload followed at once by the SaveManifest of a manifest whose   *)
(* config is the digest returned, under a new or a stored reference.       *)
(***************************************************************************)
\* a pull has written its blob and has yet to save its manifest
PullPending(p) ==
    pc[p] = "idle" /\ ret[p].op = "WriteBlob" /\ ret[p].err = ""

GcNext ==
    \/ ~PullPending(1) /\ WriteBlob(1, SeqPayloads)
    \/ PullSave(1, SeqRefs)
    \/ SaveManifestOpen(1)
    \/ SaveManifestWrite(1)
    \/ ~PullPending(1) /\ RmPolicy(1, SeqRefs)

SpecGc == Init /\ [][GcNext]_vars

\* C36 as claimed: between the commands of such a history, when
\* ListManifests returns no reference, ListBlobs returns no blob.
C36_NoReferenceNoBlob ==
    (/\ pc[1] = "idle"
     /\ ~PullPending(1)
     /\ ListManifests.refs = <<>>) =>
        ListBlobs = {}

(***************************************************************************)
(* LoadConfig (SpecLoadConfig).  The store holds or lacks the manifest of  *)
(* m:latest, whose config layer names SharedBlob with some Size, and holds *)
(* or lacks that blob, whose bytes are the JSON of a Config, whole, cut    *)
(* short, followed by white space, or nothing at all.  A byte of such a    *)
(* blob is a token of the JSON.                                            *)
(***************************************************************************)
\* data := make([]byte, size); f.Read(data): the first size bytes of the
\* file, zero bytes where the file ends before; io.EOF from a file with no
\* byte to give
ReadInto(size, content) ==
    IF size > 0 /\ content = <<>> THEN [err |-> "EOF", data |-> <<>>]
    ELSE [err |-> "",
          data |-> [i \in 1..size |->
                       IF i <= Len(content) THEN content[i] ELSE NulByte]]

\* what LoadConfig(name, tag) does: it returns err and c, or panics in
\* make([]byte, m.Config.Size) on a negative Size
LoadConfig(name, tag) ==
    LET got == LoadManifest(name, tag)
        failed(err) == [err |-> err, c |-> ZeroConfig, panic |-> FALSE]
    IN IF got.err # "" THEN failed(got.err)
       ELSE IF StatErr(got.m.config) # "" THEN failed(StatErr(got.m.config))
       ELSE IF got.m.sizes[1] < 0
       THEN [err |-> "", c |-> ZeroConfig, panic |-> TRUE]
       ELSE LET read == ReadInto(got.m.sizes[1], OpenBlob(got.m.config))
            IN IF read.err # "" THEN failed(read.err)
               ELSE [err |-> ConfigFromJSON(read.data).err,
                     c |-> ConfigFromJSON(read.data).c,
                     panic |-> FALSE]

\* a caller of LoadConfig(name, tag), as list and the server are
LoadConfigCall(p, ref) ==
    /\ pc[p] = "idle"
    /\ LET r == ParseModelRef(ref)
       IN ret' = [ret EXCEPT ![p] =
                     [op |-> "LoadConfig", ref |-> ref,
                      err |-> LoadConfig(r.name, r.tag).err,
                      c |-> LoadConfig(r.name, r.tag).c,
                      panic |-> LoadConfig(r.name, r.tag).panic]]
    /\ UNCHANGED <<blobsDir, manifests, pc, loc>>

\* ConfigBlobs are the bytes the config blob can hold; ConfigSizes the Size
\* the manifest can record: negative, zero, and the lengths of the blobs
\* less one, as they are, and plus one
InitLoadConfig ==
    LET cs == {[ZeroConfig EXCEPT !.architecture = <<"x">>],
               [ZeroConfig EXCEPT !.architecture = <<"x">>,
                                  !.hf_repo = <<"x">>,
                                  !.environments = Slice(<< <<"libero">> >>)]}
        ConfigBlobs ==
            UNION {{<<>>, ToJSON(c), ToJSON(c) \o <<Space>>,
                    SubSeq(ToJSON(c), 1, Len(ToJSON(c)) - 1)} : c \in cs}
        ConfigSizes ==
            {-1, 0} \cup {Len(b) + k : b \in ConfigBlobs \ {<<>>},
                                      k \in {-1, 0, 1}}
    IN
    /\ blobsDir \in {<< >>} \cup {(SharedBlob :> b) : b \in ConfigBlobs}
    /\ manifests \in
         {(<<>> :> DirMark)}
            \cup {(<<>> :> DirMark) @@ (<< <<"m">> >> :> DirMark)
                     @@ (<< <<"m">>, <<"latest">> >> :> data) :
                  data \in {<<>>} \cup
                      {MarshalIndent(ManifestSized(SharedBlob, <<>>, <<n>>)) :
                           n \in ConfigSizes}}
    /\ pc = [p \in Procs |-> "idle"]
    /\ loc = [p \in Procs |-> NoLoc]
    /\ ret = [p \in Procs |-> NoRet]

LoadConfigNext == \E p \in Procs, ref \in SeqRefs : LoadConfigCall(p, ref)

SpecLoadConfig == InitLoadConfig /\ [][LoadConfigNext]_vars

\* C37 as claimed: LoadConfig changes nothing; when the manifest loads, the
\* blob of its config digest is stored and the recorded Size is the length
\* of the blob, it returns what ConfigFromJSON makes of all the bytes of the
\* blob; when the manifest does not load, the blob is absent or the Size is
\* not the length of the blob, it returns an error and no Config.
C37_LoadConfigDecodesWholeBlob ==
    [][\A p \in Procs :
          Returned(p, "LoadConfig") =>
              LET r == ParseModelRef(ret'[p].ref)
                  got == LoadManifest(r.name, r.tag)
                  whole == /\ got.err = ""
                           /\ BlobExists(got.m.config)
                           /\ got.m.sizes[1] = BlobSize(got.m.config)
              IN /\ UNCHANGED <<blobsDir, manifests>>
                 /\ ~ret'[p].panic
                 /\ whole =>
                       LET all == ConfigFromJSON(OpenBlob(got.m.config))
                       IN ret'[p].err = all.err /\ ret'[p].c = all.c
                 /\ ~whole =>
                       ret'[p].err # "" /\ ret'[p].c = ZeroConfig]_vars

(***************************************************************************)
(* list and GET /api/tags (SpecList).  Process 1 saves and deletes         *)
(* manifests whose layers carry sizes, process 2 lists.  The config blob   *)
(* the manifests name is stored whole, stored empty, or not stored.  What  *)
(* a listing puts out is a sequence of rows; a panic puts out none, the    *)
(* rows of list being held back until w.Flush().                           *)
(***************************************************************************)
\* formatSize(bytes): the number printed and its unit.  Tenths is
\* fmt.Sprintf("%.1f", float64(bytes)/unit) as a number of tenths: the
\* nearest tenth, the even one of two that are equally near
formatSize(bytes) ==
    LET KB == 1024
        MB == KB * 1024
        GB == MB * 1024
        Tenths(unit) ==
            LET q == (bytes * 10) \div unit
                rem == (bytes * 10) % unit
            IN IF 2 * rem > unit \/ (2 * rem = unit /\ q % 2 = 1)
               THEN q + 1 ELSE q
    IN IF bytes >= GB THEN <<Tenths(GB), "GB">>
       ELSE IF bytes >= MB THEN <<Tenths(MB), "MB">>
       ELSE IF bytes >= KB THEN <<Tenths(KB), "KB">>
       ELSE <<bytes, "B">>

\* size := "-"
Dash == <<0, "-">>

\* for _, l := range m.Layers { total += l.Size }, from layer i on
RECURSIVE LayersTotal(_, _)
LayersTotal(m, i) ==
    IF i > Len(m.layers) THEN 0 ELSE m.sizes[i + 1] + LayersTotal(m, i + 1)

\* whether the loop over refs panics in a LoadConfig
LoopPanics(refs) ==
    \E i \in 1..Len(refs) :
        LET r == ParseModelRef(refs[i])
        IN /\ LoadManifest(r.name, r.tag).err = ""
           /\ LoadConfig(r.name, r.tag).panic

\* the row list prints for ref
ListRow(ref) ==
    LET r == ParseModelRef(ref)
        got == LoadManifest(r.name, r.tag)
    IN [name |-> ref,
        size |-> IF got.err = "" THEN formatSize(LayersTotal(got.m, 1))
                 ELSE Dash,
        arch |-> IF got.err = "" /\ LoadConfig(r.name, r.tag).err = ""
                 THEN LoadConfig(r.name, r.tag).c.architecture
                 ELSE <<"-">>]

\* the modelInfo handleTags appends for ref
TagsRow(ref) ==
    LET r == ParseModelRef(ref)
        got == LoadManifest(r.name, r.tag)
    IN [name |-> ref,
        size |-> IF got.err = "" THEN LayersTotal(got.m, 1) ELSE 0,
        arch |-> IF got.err = "" /\ LoadConfig(r.name, r.tag).err = ""
                 THEN LoadConfig(r.name, r.tag).c.architecture
                 ELSE <<>>]

\* listPolicies(): the error of ListManifests on stderr, or the rows
listPolicies(p) ==
    /\ pc[p] = "idle"
    /\ LET l == ListManifests
           panic == l.err = "" /\ LoopPanics(l.refs)
       IN ret' = [ret EXCEPT ![p] =
                     [op |-> "list", err |-> l.err, panic |-> panic,
                      out |-> IF l.err # "" \/ panic THEN <<>>
                              ELSE [i \in 1..Len(l.refs) |->
                                       ListRow(l.refs[i])]]]
    /\ UNCHANGED <<blobsDir, manifests, pc, loc>>

\* handleTags: status 500 and the error of ListManifests, or the models
handleTags(p) ==
    /\ pc[p] = "idle"
    /\ LET l == ListManifests
           panic == l.err = "" /\ LoopPanics(l.refs)
       IN ret' = [ret EXCEPT ![p] =
                     [op |-> "tags", err |-> l.err, panic |-> panic,
                      out |-> IF l.err # "" \/ panic THEN <<>>
                              ELSE [i \in 1..Len(l.refs) |->
                                       TagsRow(l.refs[i])]]]
    /\ UNCHANGED <<blobsDir, manifests, pc, loc>>

\* the bytes of the config blob the listed manifests name
ListedConfig == ToJSON([ZeroConfig EXCEPT !.architecture = <<"x">>])

\* the manifests process 1 saves: no, one and two layers, the config Size
\* right, zero and negative
ListedManifests ==
    {ManifestSized(SharedBlob, <<>>, <<Len(ListedConfig)>>),
     ManifestSized(SharedBlob, <<OtherBlob>>, <<Len(ListedConfig), 1280>>),
     ManifestSized(SharedBlob, <<OtherBlob>>, <<0, 1024>>),
     ManifestSized(SharedBlob, <<OtherBlob, OtherBlob>>, <<-1, 3, 1280>>)}

InitList ==
    /\ blobsDir \in {<< >>, (SharedBlob :> <<>>), (SharedBlob :> ListedConfig)}
    /\ manifests = (<<>> :> DirMark)
    /\ pc = [p \in Procs |-> "idle"]
    /\ loc = [p \in Procs |-> NoLoc]
    /\ ret = [p \in Procs |-> NoRet]

ListNext ==
    \/ SaveManifest(1, SeqRefs, ListedManifests)
    \/ \E ref \in SeqRefs : DeleteManifestCall(1, ref)
    \/ listPolicies(2)
    \/ handleTags(2)

SpecList == InitList /\ [][ListNext]_vars

\* the sum of the numbers of a sequence
RECURSIVE SumSeq(_)
SumSeq(ns) == IF ns = <<>> THEN 0 ELSE Head(ns) + SumSeq(Tail(ns))

\* C38 as claimed: list and GET /api/tags put out one row for each
\* reference ListManifests returns, in that order; the row of a reference
\* whose manifest does not load has the size "-" (0 in the API) and the
\* architecture "-" (empty in the API); the row of one whose manifest loads
\* has the sum of the sizes of the layers, the config layer not among them,
\* and the architecture "-" (empty) when the config does not load.
C38_ListingHasOneRowPerReference ==
    [][\A p \in Procs :
          Returned(p, "list") \/ Returned(p, "tags") =>
              LET refs == ListManifests.refs
                  out == ret'[p].out
                  cli == ret'[p].op = "list"
              IN /\ ~ret'[p].panic
                 /\ Len(out) = Len(refs)
                 /\ \A i \in 1..Len(refs) :
                       LET r == ParseModelRef(refs[i])
                           got == LoadManifest(r.name, r.tag)
                           sum == SumSeq(Tail(got.m.sizes))
                           none == IF cli THEN <<"-">> ELSE <<>>
                       IN /\ out[i].name = refs[i]
                          /\ got.err # "" =>
                                /\ out[i].size = IF cli THEN Dash ELSE 0
                                /\ out[i].arch = none
                          /\ got.err = "" =>
                                /\ out[i].size =
                                      IF cli THEN formatSize(sum) ELSE sum
                                /\ LoadConfig(r.name, r.tag).err # "" =>
                                      out[i].arch = none]_vars

====
